---- MODULE Spec2Model ----
(***************************************************************************)
(* A model of the null.qubit device of PennyLane                           *)
(* (src/pennylane/devices/null_qubit.py): the zero-result synthesizer      *)
(* zero_measurement, the resource accountant _simulate_resource_use, the   *)
(* configuration normalisation of NullQubit.preprocess, and the execution  *)
(* facade NullQubit._simulate / NullQubit.execute.                         *)
(*                                                                         *)
(* Representation of Python values:                                        *)
(*   - None is the integer None (-1); shot counts and batch sizes are      *)
(*     positive integers, use_device_* flags are "None", "True", "False".  *)
(*   - an array is a record [tag |-> "array", shape, dtype, like, data]    *)
(*     with data the row-major flat buffer, as an ndarray is.              *)
(*   - a dict is the sequence of its [key, val] items in insertion order.  *)
(*   - a tuple/list is a record [tag |-> "tuple", items |-> <<...>>].      *)
(*   - a raised exception is a record [tag |-> "raise", error |-> name].   *)
(***************************************************************************)
EXTENDS Integers, Sequences, FiniteSets, TLC

VARIABLES
    \* one call of zero_measurement
    zm_args, zm_ret,
    \* the lru_cache of _cached_zero_return: items, least recently used first
    cache,
    \* one call of _simulate_resource_use
    res_circuit, res_report,
    \* one call of the configuration normalisation of NullQubit.preprocess
    cfg_in, cfg_out,
    \* one call of NullQubit._simulate
    sim_args, sim_ret,
    \* the device (self.wires, self._track_resources)
    wires, track_resources,
    \* a call of NullQubit.execute: its arguments, the generator position,
    \* the results collected so far, the outcome handed to the caller
    circuits, execution_config, idx, results, pc, ret,
    \* the environment: report files by timestamp, time.time() in ns
    files, clock,
    \* history: execute calls made, circuits whose _simulate completed,
    \* execute calls that raised, the last call of execute that returned
    calls, executed, failed, last,
    \* one configuration asked of supports_derivatives / _vjp / _jvp
    cap_in, cap_out,
    \* one call of a derivative method of NullQubit
    grad_args, grad_ret,
    \* one construction of AmplitudeAmplification
    aa_args, aa_obj,
    \* one construction of kUpCCGSD and one call of kUpCCGSD.shape
    ku_args, ku_obj, ku_shape,
    \* the transform program of one call of NullQubit.preprocess: as
    \* DefaultQubit.preprocess_transforms gives it, as preprocess returns it
    \* with the cells its closures read, and one call of a stopping condition
    td_in, td_out, td_call,
    \* a caller of the device: the cache keys whose stored array it was
    \* handed, the value it was returned last, the calls it has made
    held, served, sh_calls

vars == <<zm_args, zm_ret, cache, res_circuit, res_report, cfg_in, cfg_out,
          sim_args, sim_ret, wires, track_resources, circuits,
          execution_config, idx, results, pc, ret, files, clock, calls,
          executed, failed, last, cap_in, cap_out, grad_args, grad_ret,
          aa_args, aa_obj, ku_args, ku_obj, ku_shape, td_in, td_out,
          td_call, held, served, sh_calls>>

zmVars == <<zm_args, zm_ret>>
resVars == <<res_circuit, res_report>>
cfgVars == <<cfg_in, cfg_out>>
simVars == <<sim_args, sim_ret>>
devVars == <<wires, track_resources>>
execVars == <<circuits, execution_config, idx, results, pc, ret, files,
              clock, calls, executed, failed, last>>
capVars == <<cap_in, cap_out>>
gradVars == <<grad_args, grad_ret>>
aaVars == <<aa_args, aa_obj>>
kuVars == <<ku_args, ku_obj, ku_shape>>
tdVars == <<td_in, td_out, td_call>>
shVars == <<held, served, sh_calls>>
extVars == <<kuVars, tdVars, shVars>>
auxVars == <<capVars, gradVars, aaVars, extVars>>

----------------------------------------------------------------------------
(* Bounds of the model *)

MaxWires == 2
MaxShots == 2
MaxBatch == 2
MaxEig == 3
MaxOps == 2
MaxDepth == 2
MaxControl == 2
MaxMeas == 2
MaxPart == 2
MaxCircuits == 2
MaxClock == 2
MaxCalls == 2
MaxTrain == 2
MaxKWires == 6
MaxLayers == 2
MaxCols == 18
MaxTransforms == 2

----------------------------------------------------------------------------
(* Python values *)

None == -1

NoCall == [tag |-> "nocall"]

\* the values config.interface.get_like() takes
Interfaces == {"numpy", "jax"}

Raise(error) == [tag |-> "raise", error |-> error]

\* no exception is propagating
NoError == [tag |-> "ok"]

Tuple(items) == [tag |-> "tuple", items |-> items]

RECURSIVE Pow2(_)
Pow2(n) == IF n = 0 THEN 1 ELSE 2 * Pow2(n - 1)

RECURSIVE Prod(_)
Prod(shape) == IF shape = <<>> THEN 1 ELSE Head(shape) * Prod(Tail(shape))

RECURSIVE Repeat(_, _)
Repeat(s, n) == IF n <= 0 THEN <<>> ELSE s \o Repeat(s, n - 1)

\* math.zeros(shape, like=interface, dtype=dtype)
zeros(shape, like, dtype) ==
    [tag |-> "array", shape |-> shape, dtype |-> dtype, like |-> like,
     data |-> [i \in 1..Prod(shape) |-> 0]]

\* math.asarray(x, like=interface) of a Python scalar
asarray_scalar(x, like) ==
    [tag |-> "array", shape |-> <<>>, dtype |-> "int", like |-> like,
     data |-> <<x>>]

\* math.asarray(x, like=interface) of a Python float
asarray_float(x, like) ==
    [tag |-> "array", shape |-> <<>>, dtype |-> "float", like |-> like,
     data |-> <<x>>]

\* math.zeros_like(x) of an array
zeros_like(x) == [x EXCEPT !.data = [i \in DOMAIN x.data |-> 0]]

\* math.asarray(state, like=interface) of a list of floats (rows = None) or
\* of a list of rows equal lists of floats
asarray_list(state, rows, like) ==
    [tag |-> "array",
     shape |-> IF rows = None THEN <<Len(state)>> ELSE <<rows, Len(state)>>,
     dtype |-> "float", like |-> like,
     data |-> IF rows = None THEN state ELSE Repeat(state, rows)]

----------------------------------------------------------------------------
(* Measurement processes.  A measurement process is a record                *)
(*   kind         its class                                                *)
(*   nwires       len(mp.wires)                                            *)
(*   obs          "None" or "obs"       (mp.obs)                           *)
(*   mv           "None" or "MeasurementValue"   (mp.mv)                   *)
(*   eigvals      mp.eigvals(), in the order the observable gives them     *)
(*   all_outcomes mp.all_outcomes                                          *)

EigVals == {-1, 0, 1}

SeqsUpTo(S, n) == UNION {[1..k -> S] : k \in 1..n}

PlainMP(kind, nwires) ==
    [kind |-> kind, nwires |-> nwires, obs |-> "None", mv |-> "None",
     eigvals |-> <<>>, all_outcomes |-> FALSE]

ScalarMPs == {PlainMP(k, 1) : k \in {"ExpectationMP", "VarianceMP"}}

DensityMPs == {PlainMP("DensityMatrixMP", w) : w \in 1..MaxWires}

StateProbMPs ==
    {PlainMP(k, w) : k \in {"StateMP", "ProbabilityMP"}, w \in 0..MaxWires}

CountsPlainMPs ==
    {[kind |-> "CountsMP", nwires |-> 0, obs |-> "None", mv |-> "None",
      eigvals |-> <<>>, all_outcomes |-> a] : a \in BOOLEAN}

CountsObsMPs ==
    {[kind |-> "CountsMP", nwires |-> 1, obs |-> src[1], mv |-> src[2],
      eigvals |-> e, all_outcomes |-> a] :
        src \in {<<"obs", "None">>, <<"None", "MeasurementValue">>},
        e \in SeqsUpTo(EigVals, MaxEig), a \in BOOLEAN}

ShadowMPs == {PlainMP("ClassicalShadowMP", w) : w \in 1..MaxWires}

MPs == ScalarMPs \cup DensityMPs \cup StateProbMPs \cup CountsPlainMPs
          \cup CountsObsMPs \cup ShadowMPs

\* mp.shape(shots, num_device_wires): a density matrix is 2^w x 2^w, a
\* classical shadow holds the bits and the recipes of every shot and wire
Shape(mp, shots, num_device_wires) ==
    CASE mp.kind = "DensityMatrixMP" -> <<Pow2(mp.nwires), Pow2(mp.nwires)>>
      [] mp.kind = "ClassicalShadowMP" -> <<2, shots, mp.nwires>>
      [] OTHER -> <<>>

\* mp.numeric_type
NumericType(mp) == IF mp.kind = "DensityMatrixMP" THEN "complex" ELSE "float"

----------------------------------------------------------------------------
(* Python helpers used by the counts rule *)

RECURSIVE InsertSorted(_, _)
InsertSorted(x, s) ==
    IF s = <<>> THEN <<x>>
    ELSE IF x < Head(s) THEN <<x>> \o s
    ELSE <<Head(s)>> \o InsertSorted(x, Tail(s))

\* sorted(seq): ascending
RECURSIVE sorted(_)
sorted(s) == IF s = <<>> THEN <<>> ELSE InsertSorted(Head(s), sorted(Tail(s)))

\* "0" * n
RECURSIVE ZeroString(_)
ZeroString(n) == IF n <= 0 THEN "" ELSE "0" \o ZeroString(n - 1)

\* the binary digits of x, most significant first
RECURSIVE Bits(_)
Bits(x) ==
    IF x < 2 THEN (IF x = 1 THEN "1" ELSE "0")
    ELSE Bits(x \div 2) \o (IF x % 2 = 1 THEN "1" ELSE "0")

\* faulty variant of FormatBinary: f"{x:b}", the width dropped
FormatBinary_NoPad(x, width) == Bits(x)

\* f"{x:0{width}b}": the binary digits, zero-padded on the left to width
FormatBinary(x, width) == ZeroString(width - Len(Bits(x))) \o Bits(x)

\* results[key] = val on a dict: replaces the value of a present key in place,
\* appends a new key
DictSet(d, key, val) ==
    IF \E i \in 1..Len(d) : d[i].key = key
    THEN [i \in 1..Len(d) |->
            IF d[i].key = key THEN [key |-> key, val |-> val] ELSE d[i]]
    ELSE Append(d, [key |-> key, val |-> val])

\* for val in outcomes: results[val] = zero
RECURSIVE DictSetAll(_, _, _)
DictSetAll(d, outcomes, zero) ==
    IF outcomes = <<>> THEN d
    ELSE DictSetAll(DictSet(d, Head(outcomes), zero), Tail(outcomes), zero)

Dict(items) == [tag |-> "dict", items |-> items]

----------------------------------------------------------------------------
(* The zero-array cache: functools.lru_cache(maxsize=128) *)

maxsize == 128

CacheKey(shape, interface, dtype) == <<shape, interface, dtype>>

CacheHas(c, key) == \E i \in 1..Len(c) : c[i].key = key

CacheIndex(c, key) == CHOOSE i \in 1..Len(c) : c[i].key = key

RemoveAt(s, i) == SubSeq(s, 1, i - 1) \o SubSeq(s, i + 1, Len(s))

\* faulty variant of _cached_zero_return: a hit answered with the value of
\* the least recent item
_cached_zero_return_Stale(c, shape, interface, dtype) ==
    LET key == CacheKey(shape, interface, dtype) IN
    IF CacheHas(c, key)
    THEN LET i == CacheIndex(c, key) IN
         [ret |-> c[1].val, cache |-> Append(RemoveAt(c, i), c[i])]
    ELSE LET val == zeros(shape, interface, dtype)
             grown == Append(c, [key |-> key, val |-> val])
         IN [ret |-> val,
             cache |-> IF Len(grown) > maxsize THEN Tail(grown) ELSE grown]

\* _cached_zero_return(shape, interface, dtype): the value and the cache after
\* the call.  A hit returns the stored object and makes it most recent; a
\* miss computes math.zeros, stores it and drops the least recent item when
\* the cache is over maxsize.
_cached_zero_return(c, shape, interface, dtype) ==
    LET key == CacheKey(shape, interface, dtype) IN
    IF CacheHas(c, key)
    THEN LET i == CacheIndex(c, key) IN
         [ret |-> c[i].val, cache |-> Append(RemoveAt(c, i), c[i])]
    ELSE LET val == zeros(shape, interface, dtype)
             grown == Append(c, [key |-> key, val |-> val])
         IN [ret |-> val,
             cache |-> IF Len(grown) > maxsize THEN Tail(grown) ELSE grown]

\* faulty variant of ContainsJax: no interface taken for a jax one
ContainsJax_Never(interface) == FALSE

\* "jax" in interface, for the values get_like() returns
ContainsJax(interface) == interface \in {"jax"}

----------------------------------------------------------------------------
(* zero_measurement and its registered rules.  Each gives [ret, cache]. *)

\* the shape the default rule builds: mp.shape(...), batch_size prepended
DefaultShape(mp, num_device_wires, shots, batch_size) ==
    IF batch_size # None
    THEN <<batch_size>> \o Shape(mp, shots, num_device_wires)
    ELSE Shape(mp, shots, num_device_wires)

_zero_measurement(c, mp, num_device_wires, shots, batch_size, interface) ==
    LET shape == DefaultShape(mp, num_device_wires, shots, batch_size) IN
    IF ~ContainsJax(interface)
    THEN _cached_zero_return(c, shape, interface, NumericType(mp))
    ELSE [ret |-> zeros(shape, interface, NumericType(mp)), cache |-> c]

\* faulty variant of StateNumWires: the measurement's own wires ignored
StateNumWires_DeviceOnly(mp, num_device_wires) == num_device_wires

\* num_wires = len(mp.wires) or num_device_wires
StateNumWires(mp, num_device_wires) ==
    IF mp.nwires # 0 THEN mp.nwires ELSE num_device_wires

zero_measurement_state(c, mp, num_device_wires, shots, batch_size, interface) ==
    LET num_wires == StateNumWires(mp, num_device_wires)
        state == <<1>> \o [i \in 1..(Pow2(num_wires) - 1) |-> 0]
    IN [ret |-> asarray_list(state, batch_size, interface), cache |-> c]

\* the key that receives the shots and the outcomes set to zero after it
CountsFirstKey(mp, num_device_wires) ==
    IF mp.obs = "None" /\ mp.mv # "MeasurementValue"
    THEN ZeroString(num_device_wires)
    ELSE sorted(mp.eigvals)[1]

CountsOutcomes(mp, num_device_wires) ==
    IF mp.obs = "None" /\ mp.mv # "MeasurementValue"
    THEN IF mp.all_outcomes
         THEN [x \in 1..(Pow2(num_device_wires) - 1) |->
                 FormatBinary(x, num_device_wires)]
         ELSE <<>>
    ELSE IF mp.all_outcomes THEN Tail(sorted(mp.eigvals)) ELSE <<>>

zero_measurement_counts(c, mp, num_device_wires, shots, batch_size, interface) ==
    LET first == <<[key |-> CountsFirstKey(mp, num_device_wires),
                    val |-> asarray_scalar(shots, interface)]>>
        outcomes == CountsOutcomes(mp, num_device_wires)
        filled == IF outcomes # <<>>
                  THEN DictSetAll(first, outcomes, asarray_scalar(0, interface))
                  ELSE first
    IN [ret |-> IF batch_size # None
                THEN Tuple([i \in 1..batch_size |-> Dict(filled)])
                ELSE Dict(filled),
        cache |-> c]

\* faulty variant of zero_measurement_shadow: broadcasting done, as the line
\* commented out in the source (line 84) would
zero_measurement_shadow_Broadcast(c, mp, num_device_wires, shots, batch_size, interface) ==
    [ret |-> zeros(DefaultShape(mp, num_device_wires, shots, batch_size),
                   interface, "int8"),
     cache |-> c]

\* the rule registered for ClassicalShadowMP (lines 81-89)
zero_measurement_shadow(c, mp, num_device_wires, shots, batch_size, interface) ==
    IF batch_size # None
    THEN [ret |-> Raise("ValueError"), cache |-> c]
    ELSE [ret |-> zeros(Shape(mp, shots, num_device_wires), interface, "int8"),
          cache |-> c]

\* faulty variant of zero_measurement: the registration of DensityMatrixMP (line 114)
\* missing, so that the rule of its base class StateMP is dispatched
zero_measurement_NoDensityRule(c, mp, num_device_wires, shots, batch_size, interface) ==
    CASE mp.kind = "ClassicalShadowMP" ->
           zero_measurement_shadow(c, mp, num_device_wires, shots, batch_size,
                                   interface)
      [] mp.kind = "CountsMP" ->
           zero_measurement_counts(c, mp, num_device_wires, shots, batch_size,
                                   interface)
      [] mp.kind \in {"StateMP", "ProbabilityMP", "DensityMatrixMP"} ->
           zero_measurement_state(c, mp, num_device_wires, shots, batch_size,
                                  interface)
      [] OTHER ->
           _zero_measurement(c, mp, num_device_wires, shots, batch_size,
                             interface)

\* the singledispatch registry: DensityMatrixMP is registered to the default
\* rule ahead of its base class StateMP
zero_measurement(c, mp, num_device_wires, shots, batch_size, interface) ==
    CASE mp.kind = "ClassicalShadowMP" ->
           zero_measurement_shadow(c, mp, num_device_wires, shots, batch_size,
                                   interface)
      [] mp.kind = "CountsMP" ->
           zero_measurement_counts(c, mp, num_device_wires, shots, batch_size,
                                   interface)
      [] mp.kind = "DensityMatrixMP" ->
           _zero_measurement(c, mp, num_device_wires, shots, batch_size,
                             interface)
      [] mp.kind \in {"StateMP", "ProbabilityMP"} ->
           zero_measurement_state(c, mp, num_device_wires, shots, batch_size,
                                  interface)
      [] OTHER ->
           _zero_measurement(c, mp, num_device_wires, shots, batch_size,
                             interface)

----------------------------------------------------------------------------
(* Operations.  An operation is the sequence of its layers, outermost       *)
(* first: op[1] is the operation itself and Tail(op) is op.base.  A layer   *)
(* is a record [type, name, ncontrol]: its class, op.name and               *)
(* len(op.control_wires).  Only the innermost layer has no base.            *)

Atom(name) == <<[type |-> "Operation", name |-> name, ncontrol |-> 0]>>

ControlledLayer(n) == [type |-> "Controlled", name |-> "Controlled", ncontrol |-> n]
ControlledOpLayer == [type |-> "ControlledOp", name |-> "ControlledOp", ncontrol |-> 1]
AdjointLayer == [type |-> "Adjoint", name |-> "Adjoint", ncontrol |-> 0]
\* a subclass of ControlledOp with a base and a name of its own
CNOTLayer == [type |-> "CNOT", name |-> "CNOT", ncontrol |-> 1]
\* a wrapper with a base that is no control or adjoint modifier
PowLayer == [type |-> "Pow", name |-> "Pow", ncontrol |-> 0]

Wrappers ==
    {ControlledLayer(n) : n \in 1..MaxControl}
        \cup {ControlledOpLayer, AdjointLayer, CNOTLayer, PowLayer}

Atoms == {Atom("X"), Atom("Barrier")}

Ops == {w \o a : w \in UNION {[1..k -> Wrappers] : k \in 0..MaxDepth},
                 a \in Atoms}

\* hasattr(op, "base")
HasBase(op) == Len(op) > 1

\* faulty variant of Unwrap: every operation with a base is unwrapped
RECURSIVE Unwrap_Through(_, _, _)
Unwrap_Through(op, controls, adj) ==
    IF ~HasBase(op) THEN [op |-> op, controls |-> controls, adj |-> adj]
    ELSE IF op[1].type \in {"Controlled", "ControlledOp"}
         THEN Unwrap_Through(Tail(op), controls + op[1].ncontrol, adj)
    ELSE IF op[1].type = "Adjoint"
         THEN Unwrap_Through(Tail(op), controls, ~adj)
    ELSE Unwrap_Through(Tail(op), controls, adj)

\* faulty variant of Unwrap: adj set by an adjoint layer, never cleared
RECURSIVE Unwrap_AdjSticky(_, _, _)
Unwrap_AdjSticky(op, controls, adj) ==
    IF ~HasBase(op) THEN [op |-> op, controls |-> controls, adj |-> adj]
    ELSE IF op[1].type \in {"Controlled", "ControlledOp"}
         THEN Unwrap_AdjSticky(Tail(op), controls + op[1].ncontrol, adj)
    ELSE IF op[1].type = "Adjoint"
         THEN Unwrap_AdjSticky(Tail(op), controls, TRUE)
    ELSE [op |-> op, controls |-> controls, adj |-> adj]

\* the unwrapping loop (lines 145-154) from op with the controls and adj
\* accumulated so far: the operation it stops at, controls and adj
RECURSIVE Unwrap(_, _, _)
Unwrap(op, controls, adj) ==
    IF ~HasBase(op) THEN [op |-> op, controls |-> controls, adj |-> adj]
    ELSE IF op[1].type \in {"Controlled", "ControlledOp"}
         THEN Unwrap(Tail(op), controls + op[1].ncontrol, adj)
    ELSE IF op[1].type = "Adjoint"
         THEN Unwrap(Tail(op), controls, ~adj)
    ELSE [op |-> op, controls |-> controls, adj |-> adj]

\* faulty variant of ReportedName: the control form built first, Adj outermost
ReportedName_AdjOutermost(name, controls, adj) ==
    LET ctl == IF controls # 0
               THEN (IF controls > 1 THEN ToString(controls) ELSE "")
                        \o "C(" \o name \o ")"
               ELSE name
    IN IF adj THEN "Adj(" \o ctl \o ")" ELSE ctl

\* faulty variant of ReportedName: the count written for a single control too
ReportedName_AlwaysNumber(name, controls, adj) ==
    LET inner == IF adj THEN "Adj(" \o name \o ")" ELSE name
    IN IF controls # 0
       THEN ToString(controls) \o "C(" \o inner \o ")"
       ELSE inner

\* the name an operation is counted under (lines 161-165)
ReportedName(name, controls, adj) ==
    LET inner == IF adj THEN "Adj(" \o name \o ")" ELSE name
    IN IF controls # 0
       THEN (IF controls > 1 THEN ToString(controls) ELSE "")
                \o "C(" \o inner \o ")"
       ELSE inner

\* gate_types[name] += 1 on a defaultdict(int)
DictIncrement(d, name) ==
    IF \E i \in 1..Len(d) : d[i].key = name
    THEN [i \in 1..Len(d) |->
            IF d[i].key = name THEN [key |-> name, val |-> d[i].val + 1]
            ELSE d[i]]
    ELSE Append(d, [key |-> name, val |-> 1])

\* the for loop over circuit.operations (lines 141-167)
RECURSIVE CountGates(_, _)
CountGates(operations, gate_types) ==
    IF operations = <<>> THEN gate_types
    ELSE LET u == Unwrap(Head(operations), 0, FALSE) IN
         IF u.op[1].name = "Barrier"
         THEN CountGates(Tail(operations), gate_types)
         ELSE CountGates(Tail(operations),
                         DictIncrement(gate_types,
                                       ReportedName(u.op[1].name, u.controls,
                                                    u.adj)))

RECURSIVE SumValues(_)
SumValues(d) == IF d = <<>> THEN 0 ELSE Head(d).val + SumValues(Tail(d))

\* faulty variant of _simulate_resource_use: num_gates taken from the length of
\* the operation list
_simulate_resource_use_CountAll(circuit) ==
    LET gate_types == CountGates(circuit.operations, <<>>) IN
    [num_wires |-> circuit.nwires,
     num_gates |-> Len(circuit.operations),
     gate_types |-> gate_types]

\* _simulate_resource_use(circuit, outfile): the object json.dump writes
_simulate_resource_use(circuit) ==
    LET gate_types == CountGates(circuit.operations, <<>>) IN
    [num_wires |-> circuit.nwires,
     num_gates |-> SumValues(gate_types),
     gate_types |-> gate_types]

----------------------------------------------------------------------------
(* Execution configurations: records [gradient_method, use_device_gradient, *)
(* use_device_jacobian_product, grad_on_execution, interface]; an unset     *)
(* field is "None", a flag is "None", "True" or "False".                    *)

Bool(b) == IF b THEN "True" ELSE "False"

GradientMethods == {"None", "best", "device", "adjoint", "backprop", "finite-diff"}

Flags == {"None", "True", "False"}

ExecutionConfigs ==
    [gradient_method : GradientMethods, use_device_gradient : Flags,
     use_device_jacobian_product : Flags, grad_on_execution : Flags,
     interface : Interfaces]

\* faulty variant of preprocess_config: the flags derived from the method after the
\* replacement of "best" and "adjoint" by "device"
preprocess_config_FromReplaced(config) ==
    LET method == IF config.gradient_method \in {"best", "adjoint"}
                  THEN "device" ELSE config.gradient_method
    IN [config EXCEPT
          !.gradient_method = method,
          !.use_device_gradient =
              IF @ = "None"
              THEN Bool(method \in {"best", "device", "adjoint", "backprop"})
              ELSE @,
          !.use_device_jacobian_product =
              IF @ = "None" THEN Bool(method = "device") ELSE @,
          !.grad_on_execution =
              IF @ = "None" THEN Bool(method = "device") ELSE @]

\* the configuration NullQubit.preprocess returns (lines 369-385):
\* replace(execution_config, **updated_values)
preprocess_config(config) ==
    [config EXCEPT
       !.gradient_method =
           IF config.gradient_method \in {"best", "adjoint"}
           THEN "device" ELSE @,
       !.use_device_gradient =
           IF @ = "None"
           THEN Bool(config.gradient_method
                       \in {"best", "device", "adjoint", "backprop"})
           ELSE @,
       !.use_device_jacobian_product =
           IF @ = "None"
           THEN Bool(config.gradient_method = "device") ELSE @,
       !.grad_on_execution =
           IF @ = "None"
           THEN Bool(config.gradient_method = "device") ELSE @]

\* faulty variant of preprocess: the fields assigned on execution_config itself
preprocess_InPlace(config) ==
    [execution_config |-> preprocess_config(config),
     ret |-> preprocess_config(config)]

\* NullQubit.preprocess(execution_config): the caller's instance after the
\* call and the configuration returned; dataclasses.replace builds a new
\* instance and leaves its argument as it is
preprocess(config) ==
    [execution_config |-> config, ret |-> preprocess_config(config)]

\* execution_config is None, the default of the capability queries
NoneConfig == [tag |-> "None"]

\* faulty variant of supports_vjp: "best" taken for a method of the device
supports_vjp_Best(config) ==
    config = NoneConfig
        \/ config.gradient_method \in {"best", "device", "backprop", "adjoint"}

supports_derivatives(config) ==
    config = NoneConfig
        \/ config.gradient_method \in {"device", "backprop", "adjoint"}

supports_vjp(config) ==
    config = NoneConfig
        \/ config.gradient_method \in {"device", "backprop", "adjoint"}

supports_jvp(config) ==
    config = NoneConfig
        \/ config.gradient_method \in {"device", "backprop", "adjoint"}

----------------------------------------------------------------------------
(* Circuits: records [operations, nwires, measurements, shots, batch_size]  *)
(* with nwires = len(circuit.wires) and shots the sequence of shot counts   *)
(* iterating circuit.shots gives (<<>> for Shots(None)).  A circuit given   *)
(* to a derivative method has the field trainable too:                      *)
(* len(circuit.trainable_params).                                           *)

\* circuit.shots.has_partitioned_shots
HasPartitionedShots(shots) == Len(shots) > 1

\* the value of a set of one value: an intermediate result bound once
TheOne(S) == CHOOSE x \in S : TRUE

\* circuit.shots or [None]
ShotsOrNone(shots) == IF shots = <<>> THEN <<None>> ELSE shots

\* _interface(config)
_interface(config) ==
    IF config.gradient_method = "backprop" THEN config.interface ELSE "numpy"

\* len(self.wires) if self.wires else len(circuit.wires)
NumDeviceWires(device_wires, circuit) ==
    IF device_wires # 0 THEN device_wires ELSE circuit.nwires

\* tuple(zero_measurement(mp, ...) for mp in circuit.measurements), the cache
\* threaded through the calls; an exception raised by a rule ends the
\* generator and propagates
RECURSIVE MeasureAll(_, _, _, _, _, _)
MeasureAll(c, mps, num_device_wires, s, batch_size, interface) ==
    IF mps = <<>> THEN [items |-> <<>>, cache |-> c, raised |-> NoError]
    ELSE TheOne({
           IF h.ret.tag = "raise"
           THEN [items |-> <<>>, cache |-> h.cache, raised |-> h.ret]
           ELSE TheOne({[items |-> <<h.ret>> \o t.items, cache |-> t.cache,
                         raised |-> t.raised] :
                        t \in {MeasureAll(h.cache, Tail(mps), num_device_wires,
                                          s, batch_size, interface)}}) :
           h \in {zero_measurement(c, Head(mps), num_device_wires, s,
                                   batch_size, interface)}})

\* faulty variant of PartitionResult: r appended whatever its length
PartitionResult_NoUnwrap(r) == Tuple(r)

\* r[0] if len(circuit.measurements) == 1 else r   (line 303)
PartitionResult(r) == IF Len(r) = 1 THEN r[1] ELSE Tuple(r)

\* the loop over the shot counts (lines 298-303): results, the cache and the
\* exception that ended it
RECURSIVE ShotsLoop(_, _, _, _, _)
ShotsLoop(c, circuit, num_device_wires, shotlist, interface) ==
    IF shotlist = <<>> THEN [results |-> <<>>, cache |-> c, raised |-> NoError]
    ELSE TheOne({
           IF m.raised # NoError
           THEN [results |-> <<>>, cache |-> m.cache, raised |-> m.raised]
           ELSE TheOne({[results |-> <<PartitionResult(m.items)>> \o t.results,
                         cache |-> t.cache, raised |-> t.raised] :
                        t \in {ShotsLoop(m.cache, circuit, num_device_wires,
                                         Tail(shotlist), interface)}}) :
           m \in {MeasureAll(c, circuit.measurements, num_device_wires,
                             Head(shotlist), circuit.batch_size, interface)}})

\* faulty variant of SimulateReturn: the results always returned as a tuple
SimulateReturn_AlwaysTuple(circuit, res) == Tuple(res)

\* lines 304-306
SimulateReturn(circuit, res) ==
    IF HasPartitionedShots(circuit.shots) THEN Tuple(res) ELSE res[1]

\* the report files: records [name, content]
NoFiles == {}

RESOURCES_FNAME_PREFIX == "__pennylane_resources_data_"

\* f"{RESOURCES_FNAME_PREFIX}{timestamp}.json"
ResourcesFname(timestamp) ==
    RESOURCES_FNAME_PREFIX \o ToString(timestamp) \o ".json"

\* faulty variant of OpenExclusive: mode "w", which opens a file that exists
OpenExclusive_Truncate(fs, name) == TRUE

\* whether open(name, "x") succeeds: the name must not be taken
OpenExclusive(fs, name) == \A f \in fs : f.name # name

\* the files after name is opened for writing and content dumped
WriteFile(fs, name, content) ==
    {f \in fs : f.name # name} \cup {[name |-> name, content |-> content]}

\* faulty variant of _simulate: the report written after the results are
\* synthesized
_simulate_ReportLast(fs, now, c, device_wires, track, circuit, interface) ==
    TheOne({IF l.raised # NoError
            THEN [ret |-> l.raised, files |-> fs, cache |-> l.cache]
            ELSE IF track /\ ~OpenExclusive(fs, ResourcesFname(now))
            THEN [ret |-> Raise("FileExistsError"), files |-> fs,
                  cache |-> l.cache]
            ELSE [ret |-> SimulateReturn(circuit, l.results),
                  files |-> IF track
                            THEN WriteFile(fs, ResourcesFname(now),
                                           _simulate_resource_use(circuit))
                            ELSE fs,
                  cache |-> l.cache] :
            l \in {ShotsLoop(c, circuit,
                             NumDeviceWires(device_wires, circuit),
                             ShotsOrNone(circuit.shots), interface)}})

\* NullQubit._simulate(circuit, interface) at time now: the value returned or
\* the exception raised, the files and the cache after it
_simulate(fs, now, c, device_wires, track, circuit, interface) ==
    IF track /\ ~OpenExclusive(fs, ResourcesFname(now))
    THEN [ret |-> Raise("FileExistsError"), files |-> fs, cache |-> c]
    ELSE TheOne({[ret |-> IF l.raised # NoError THEN l.raised
                          ELSE SimulateReturn(circuit, l.results),
                  files |-> IF track
                            THEN WriteFile(fs, ResourcesFname(now),
                                           _simulate_resource_use(circuit))
                            ELSE fs,
                  cache |-> l.cache] :
                 l \in {ShotsLoop(c, circuit,
                                  NumDeviceWires(device_wires, circuit),
                                  ShotsOrNone(circuit.shots), interface)}})

----------------------------------------------------------------------------
(* The derivative methods of a device constructed without resource         *)
(* tracking.  A method over a batch gives [ret, cache].                     *)

\* (x,) * n for every x of items
TimesN(items, n) == [j \in 1..Len(items) |-> Tuple(Repeat(<<items[j]>>, n))]

\* tuple(d[0] for d in derivatives)
FirstOfEach(derivatives) ==
    [j \in 1..Len(derivatives) |-> derivatives[j].items[1]]

\* faulty variant of DerivativesReturn: the tuple returned whatever its length
DerivativesReturn_AlwaysTuple(derivatives) == Tuple(derivatives)

\* derivatives[0] if len(derivatives) == 1 else derivatives   (line 323)
DerivativesReturn(derivatives) ==
    IF Len(derivatives) = 1 THEN derivatives[1] ELSE Tuple(derivatives)

\* NullQubit._derivatives(circuit, interface): circuit.shots itself is the
\* shots argument of zero_measurement
_derivatives(c, device_wires, circuit, interface) ==
    LET n == circuit.trainable
        Derivatives(z) ==
            TimesN([j \in 1..Len(z.items) |-> zeros_like(z.items[j])], n)
    IN TheOne({[ret |-> IF z.raised # NoError THEN z.raised
                        ELSE DerivativesReturn(
                               IF n = 1 THEN FirstOfEach(Derivatives(z))
                               ELSE Derivatives(z)),
                cache |-> z.cache] :
               z \in {MeasureAll(c, circuit.measurements,
                                 NumDeviceWires(device_wires, circuit),
                                 circuit.shots, circuit.batch_size,
                                 interface)}})

\* NullQubit._vjp(circuit, interface)
_vjp(circuit, interface) ==
    LET n == circuit.trainable
        res_shape == IF circuit.batch_size = None THEN <<n>>
                     ELSE <<n, circuit.batch_size>>
    IN zeros(res_shape, interface, "float")

\* NullQubit._jvp(circuit, interface)
_jvp(circuit, interface) ==
    LET jvps == Repeat(<<asarray_float(0, interface)>>,
                       Len(circuit.measurements))
    IN IF Len(jvps) = 1 THEN jvps[1] ELSE Tuple(jvps)

\* tuple(self._derivatives(c, interface) for c in circuits)
RECURSIVE DerivativesAll(_, _, _, _)
DerivativesAll(c, device_wires, batch, interface) ==
    IF batch = <<>> THEN [items |-> <<>>, cache |-> c, raised |-> NoError]
    ELSE TheOne({
           IF h.ret.tag = "raise"
           THEN [items |-> <<>>, cache |-> h.cache, raised |-> h.ret]
           ELSE TheOne({[items |-> <<h.ret>> \o t.items, cache |-> t.cache,
                         raised |-> t.raised] :
                        t \in {DerivativesAll(h.cache, device_wires,
                                              Tail(batch), interface)}}) :
           h \in {_derivatives(c, device_wires, Head(batch), interface)}})

\* tuple(self._simulate(c, interface) for c in circuits), no report written
RECURSIVE SimulateAll(_, _, _, _)
SimulateAll(c, device_wires, batch, interface) ==
    IF batch = <<>> THEN [items |-> <<>>, cache |-> c, raised |-> NoError]
    ELSE TheOne({
           IF h.ret.tag = "raise"
           THEN [items |-> <<>>, cache |-> h.cache, raised |-> h.ret]
           ELSE TheOne({[items |-> <<h.ret>> \o t.items, cache |-> t.cache,
                         raised |-> t.raised] :
                        t \in {SimulateAll(h.cache, device_wires, Tail(batch),
                                           interface)}}) :
           h \in {_simulate(NoFiles, 0, c, device_wires, FALSE, Head(batch),
                            interface)}})

\* the value a method returns from what its generator gave
BatchReturn(r) == IF r.raised # NoError THEN r.raised ELSE Tuple(r.items)

compute_derivatives(c, device_wires, batch, config) ==
    TheOne({[ret |-> BatchReturn(jacs), cache |-> jacs.cache] :
            jacs \in {DerivativesAll(c, device_wires, batch,
                                     _interface(config))}})

execute_and_compute_derivatives(c, device_wires, batch, config) ==
    TheOne({
      IF res.raised # NoError THEN [ret |-> res.raised, cache |-> res.cache]
      ELSE TheOne({
             IF jacs.raised # NoError
             THEN [ret |-> jacs.raised, cache |-> jacs.cache]
             ELSE [ret |-> Tuple(<<Tuple(res.items), Tuple(jacs.items)>>),
                   cache |-> jacs.cache] :
             jacs \in {DerivativesAll(res.cache, device_wires, batch,
                                      _interface(config))}}) :
      res \in {SimulateAll(c, device_wires, batch, _interface(config))}})

\* tuple(self._jvp(c, interface) for c in circuits)
JvpAll(batch, interface) ==
    Tuple([i \in 1..Len(batch) |-> _jvp(batch[i], interface)])

\* faulty variant of VjpAll: the first cotangent written into the arrays
VjpAll_TimesCotangent(batch, cotangents, interface) ==
    Tuple([i \in 1..Len(batch) |->
             [_vjp(batch[i], interface) EXCEPT
                !.data = [k \in DOMAIN @ |-> cotangents[1]]]])

\* tuple(self._vjp(c, interface) for c in circuits) in a method given
\* cotangents
VjpAll(batch, cotangents, interface) ==
    Tuple([i \in 1..Len(batch) |-> _vjp(batch[i], interface)])

compute_jvp(batch, tangents, config) == JvpAll(batch, _interface(config))

execute_and_compute_jvp(c, device_wires, batch, tangents, config) ==
    TheOne({
      IF res.raised # NoError THEN [ret |-> res.raised, cache |-> res.cache]
      ELSE [ret |-> Tuple(<<Tuple(res.items),
                            JvpAll(batch, _interface(config))>>),
            cache |-> res.cache] :
      res \in {SimulateAll(c, device_wires, batch, _interface(config))}})

compute_vjp(batch, cotangents, config) ==
    VjpAll(batch, cotangents, _interface(config))

execute_and_compute_vjp(c, device_wires, batch, cotangents, config) ==
    TheOne({
      IF res.raised # NoError THEN [ret |-> res.raised, cache |-> res.cache]
      ELSE [ret |-> Tuple(<<Tuple(res.items),
                            VjpAll(batch, cotangents, _interface(config))>>),
            cache |-> res.cache] :
      res \in {SimulateAll(c, device_wires, batch, _interface(config))}})

----------------------------------------------------------------------------
(* Idle values of the variables a specification does not use *)

ZmIdle == zm_args = NoCall /\ zm_ret = NoCall
ResIdle == res_circuit = NoCall /\ res_report = NoCall
CfgIdle == cfg_in = NoCall /\ cfg_out = NoCall
SimIdle == sim_args = NoCall /\ sim_ret = NoCall
DevIdle == wires = 0 /\ track_resources = FALSE
ExecIdle ==
    /\ circuits = <<>> /\ execution_config = NoCall /\ idx = 0
    /\ results = <<>> /\ pc = "idle" /\ ret = NoCall
    /\ files = NoFiles /\ clock = 0
    /\ calls = 0 /\ executed = 0 /\ failed = 0 /\ last = NoCall
CapIdle == cap_in = NoCall /\ cap_out = NoCall
GradIdle == grad_args = NoCall /\ grad_ret = NoCall
AaIdle == aa_args = NoCall /\ aa_obj = NoCall
KuIdle == ku_args = NoCall /\ ku_obj = NoCall /\ ku_shape = NoCall
TdIdle == td_in = NoCall /\ td_out = NoCall /\ td_call = NoCall
ShIdle == held = {} /\ served = NoCall /\ sh_calls = 0
ExtIdle == KuIdle /\ TdIdle /\ ShIdle
AuxIdle == CapIdle /\ GradIdle /\ AaIdle /\ ExtIdle

----------------------------------------------------------------------------
(* SpecZero: one call of zero_measurement on every input of the bounds,     *)
(* with the cache empty or already holding the float scalar zero.           *)

OrNone(S) == {None} \cup S

\* a classical shadow is measured with shots: its shape has no value without
ZeroInputs ==
    {a \in [mp : MPs, num_device_wires : 0..MaxWires,
            shots : OrNone(1..MaxShots), batch_size : OrNone(1..MaxBatch),
            interface : Interfaces] :
        a.mp.kind = "ClassicalShadowMP" => a.shots # None}

CacheItem(shape, interface, dtype) ==
    [key |-> CacheKey(shape, interface, dtype),
     val |-> zeros(shape, interface, dtype)]

InitCaches == {<<>>, <<CacheItem(<<>>, "numpy", "float")>>}

InitZero ==
    /\ zm_args \in ZeroInputs
    /\ zm_ret = NoCall
    /\ cache \in InitCaches
    /\ ResIdle /\ CfgIdle /\ SimIdle /\ DevIdle /\ ExecIdle /\ AuxIdle

ZeroMeasurementCall ==
    /\ zm_ret = NoCall
    /\ LET r == zero_measurement(cache, zm_args.mp, zm_args.num_device_wires,
                                 zm_args.shots, zm_args.batch_size,
                                 zm_args.interface)
       IN /\ zm_ret' = r.ret
          /\ cache' = r.cache
    /\ UNCHANGED <<auxVars, zm_args, resVars, cfgVars, simVars, devVars,
                   execVars>>

NextZero == ZeroMeasurementCall

SpecZero == InitZero /\ [][NextZero]_vars

----------------------------------------------------------------------------
(* Properties of zero_measurement (checked under SpecZero) *)

ZmDone == zm_ret # NoCall

Range(f) == {f[i] : i \in DOMAIN f}

DictKeys(d) == {d[i].key : i \in 1..Len(d)}

DictGet(d, key) == d[CHOOSE i \in 1..Len(d) : d[i].key = key].val

\* the mappings a counts result holds: the dict itself, or the batch_size
\* dicts of the tuple
CountsDicts(r, batch_size) ==
    IF batch_size = None THEN {r.items}
    ELSE {r.items[i].items : i \in 1..Len(r.items)}

CountsShape(r, batch_size) ==
    IF batch_size = None THEN r.tag = "dict"
    ELSE /\ r.tag = "tuple"
         /\ Len(r.items) = batch_size
         /\ \A i \in 1..Len(r.items) : r.items[i].tag = "dict"

HasEigvals(mp) == ~(mp.obs = "None" /\ mp.mv # "MeasurementValue")

\* C3: counts rule with an observable or a mid-circuit measurement value: for
\* every non-empty eigenvalue list (repeated eigenvalues included) and both
\* values of all_outcomes, the smallest eigenvalue is mapped to the full shot
\* count; with all_outcomes every other eigenvalue is mapped to 0, and
\* without it no other key is present.
C3_SmallestEigenvalueGetsShots ==
    (/\ ZmDone /\ zm_args.mp.kind = "CountsMP" /\ HasEigvals(zm_args.mp)
     /\ zm_args.shots # None)
    => LET eig == Range(zm_args.mp.eigvals)
           smallest == CHOOSE e \in eig : \A f \in eig : e <= f
       IN /\ CountsShape(zm_ret, zm_args.batch_size)
          /\ \A d \in CountsDicts(zm_ret, zm_args.batch_size) :
               /\ smallest \in DictKeys(d)
               /\ DictGet(d, smallest).data = <<zm_args.shots>>
               /\ IF zm_args.mp.all_outcomes
                  THEN /\ DictKeys(d) = eig
                       /\ \A e \in eig \ {smallest} :
                            DictGet(d, e).data = <<0>>
                  ELSE DictKeys(d) = {smallest}

\* C8: state and probability rule: for every shots value and batch_size the
\* result is the vector of length 2^w with 1 at index 0 and 0 elsewhere, w
\* the measurement's own wire count when non-zero and the device wire count
\* otherwise; with batch_size = b it is b identical copies of that vector.
C8_StateProbBasisVector ==
    (ZmDone /\ zm_args.mp.kind \in {"StateMP", "ProbabilityMP"})
    => LET w == IF zm_args.mp.nwires # 0 THEN zm_args.mp.nwires
                ELSE zm_args.num_device_wires
           L == 2 ^ w
           b == zm_args.batch_size
       IN /\ zm_ret.tag = "array"
          /\ zm_ret.shape = IF b = None THEN <<L>> ELSE <<b, L>>
          /\ Len(zm_ret.data) = (IF b = None THEN 1 ELSE b) * L
          /\ \A i \in 1..Len(zm_ret.data) :
               zm_ret.data[i] = IF (i - 1) % L = 0 THEN 1 ELSE 0

C8_Witness ==
    /\ ZmDone /\ zm_args.mp.kind = "ProbabilityMP" /\ zm_args.mp.nwires = 1
    /\ zm_args.num_device_wires = 2 /\ zm_args.batch_size = 2
    /\ zm_args.shots = 1
    /\ zm_ret.shape = <<2, 2>> /\ zm_ret.data = <<1, 0, 1, 0>>

\* the bitstring of x of exactly n digits
RECURSIVE BitString(_, _)
BitString(x, n) ==
    IF n = 0 THEN ""
    ELSE BitString(x \div 2, n - 1) \o (IF x % 2 = 1 THEN "1" ELSE "0")

\* C9: counts rule without observable and without mid-circuit measurement
\* value, for device wire count n and shot count s: with all_outcomes=False
\* the result is exactly the one-entry mapping {"0"*n: s}; with
\* all_outcomes=True it has exactly 2^n keys, all bitstrings of length n in
\* increasing integer order, the all-zero one mapped to s and every other to
\* 0; with batch_size = b the result is a sequence of b copies of it.
C9_CountsNoObservable ==
    (ZmDone /\ zm_args.mp.kind = "CountsMP" /\ ~HasEigvals(zm_args.mp))
    => LET n == zm_args.num_device_wires
           s == zm_args.shots
           size == IF zm_args.mp.all_outcomes THEN 2 ^ n ELSE 1
       IN /\ CountsShape(zm_ret, zm_args.batch_size)
          /\ \A d \in CountsDicts(zm_ret, zm_args.batch_size) :
               /\ Len(d) = size
               /\ \A x \in 0..(size - 1) :
                    /\ d[x + 1].key = BitString(x, n)
                    /\ d[x + 1].val.data = <<IF x = 0 THEN s ELSE 0>>

C9_Witness ==
    /\ ZmDone /\ zm_args.mp.kind = "CountsMP" /\ ~HasEigvals(zm_args.mp)
    /\ zm_args.mp.all_outcomes /\ zm_args.num_device_wires = 2
    /\ zm_args.shots = 2 /\ zm_args.batch_size = 2
    /\ Len(zm_ret.items) = 2
    /\ [i \in 1..4 |-> zm_ret.items[2].items[i].key]
         = <<"00", "01", "10", "11">>
    /\ [i \in 1..4 |-> zm_ret.items[2].items[i].val.data[1]] = <<2, 0, 0, 0>>

\* C10: default rule: for expectation, variance and density matrix (routed
\* to the default rule although a sub-kind of state) the result is an
\* all-zero array whose shape is the measurement's shape function applied to
\* (shots, device wire count), with batch_size prepended as the leading
\* dimension when batch_size is not None.
C10_DefaultRuleZeros ==
    (/\ ZmDone
     /\ zm_args.mp.kind \in {"ExpectationMP", "VarianceMP", "DensityMatrixMP"})
    => LET own == Shape(zm_args.mp, zm_args.shots, zm_args.num_device_wires)
           b == zm_args.batch_size
           n == (IF b = None THEN 1 ELSE b) * Prod(own)
       IN /\ zm_ret.tag = "array"
          /\ zm_ret.shape = (IF b = None THEN own ELSE <<b>> \o own)
          /\ zm_ret.data = [i \in 1..n |-> 0]

C10_Witness ==
    /\ ZmDone /\ zm_args.mp.kind = "DensityMatrixMP" /\ zm_args.mp.nwires = 1
    /\ zm_args.batch_size = 2 /\ zm_args.num_device_wires = 2
    /\ zm_ret.shape = <<2, 2, 2>> /\ Len(zm_ret.data) = 8

\* C11: classical-shadow rule: for every shot count and wire count, a
\* non-None batch_size makes the synthesizer raise the unsupported-combination
\* error (ValueError) and return no value; with batch_size None it returns an
\* all-zero integer array of the measurement's own shape.
C11_ShadowRaisesOnBatch ==
    (ZmDone /\ zm_args.mp.kind = "ClassicalShadowMP")
    => IF zm_args.batch_size # None
       THEN zm_ret = Raise("ValueError")
       ELSE LET own == Shape(zm_args.mp, zm_args.shots,
                             zm_args.num_device_wires)
            IN /\ zm_ret.tag = "array"
               /\ zm_ret.dtype = "int8"
               /\ zm_ret.shape = own
               /\ zm_ret.data = [i \in 1..Prod(own) |-> 0]

C11_Witness ==
    /\ ZmDone /\ zm_args.mp.kind = "ClassicalShadowMP"
    /\ zm_args.mp.nwires = 2 /\ zm_args.shots = 2
    /\ zm_args.num_device_wires = 1 /\ zm_args.batch_size = 1
    /\ zm_ret = Raise("ValueError")

----------------------------------------------------------------------------
(* SpecRes: one call of _simulate_resource_use on a circuit holding one     *)
(* operation of Ops among up to MaxOps - 1 plain operations.                *)

PlainOps == {Atom("X"), Atom("Barrier"), <<AdjointLayer>> \o Atom("X")}

ResCircuits ==
    {[operations |-> <<>>, nwires |-> 0]} \cup
    {[operations |-> pre \o <<op>> \o post, nwires |-> n] :
        pre \in UNION {[1..k -> PlainOps] : k \in 0..1},
        post \in UNION {[1..k -> PlainOps] : k \in 0..(MaxOps - 1)},
        op \in Ops, n \in 1..MaxWires}

ResInputs == {c \in ResCircuits : Len(c.operations) <= MaxOps}

InitRes ==
    /\ res_circuit \in ResInputs
    /\ res_report = NoCall
    /\ cache = <<>>
    /\ ZmIdle /\ CfgIdle /\ SimIdle /\ DevIdle /\ ExecIdle /\ AuxIdle

SimulateResourceUseCall ==
    /\ res_report = NoCall
    /\ res_report' = _simulate_resource_use(res_circuit)
    /\ UNCHANGED <<auxVars, res_circuit, cache, zmVars, cfgVars, simVars, devVars,
                   execVars>>

NextRes == SimulateResourceUseCall

SpecRes == InitRes /\ [][NextRes]_vars

ResDone == res_report # NoCall

Modifiers == {"Controlled", "ControlledOp", "Adjoint"}

\* the number of leading control and adjoint layers of an operation
ModifierDepth(op) ==
    CHOOSE j \in 0..(Len(op) - 1) :
        /\ \A i \in 1..j : op[i].type \in Modifiers
        /\ j + 1 < Len(op) => op[j + 1].type \notin Modifiers

RECURSIVE SumOver(_, _)
SumOver(S, f) ==
    IF S = {} THEN 0
    ELSE LET x == CHOOSE y \in S : TRUE IN f[x] + SumOver(S \ {x}, f)

\* the control wires of the leading modifier layers
ControlCount(op) ==
    LET ctl == {i \in 1..ModifierDepth(op) :
                  op[i].type \in {"Controlled", "ControlledOp"}}
    IN SumOver(ctl, [i \in ctl |-> op[i].ncontrol])

\* whether the leading modifier layers hold an odd number of adjoints
AdjointOdd(op) ==
    Cardinality({i \in 1..ModifierDepth(op) : op[i].type = "Adjoint"}) % 2 = 1

\* the name of the operation under the leading modifier layers
InnerName(op) == op[ModifierDepth(op) + 1].name

ControlPrefix(k) == IF k > 1 THEN ToString(k) ELSE ""

ControlledAdjointOps(circuit) ==
    {i \in 1..Len(circuit.operations) :
        LET op == circuit.operations[i] IN
        /\ ControlCount(op) > 0 /\ AdjointOdd(op)
        /\ InnerName(op) # "Barrier"}

XUnderControl2AndAdjoint ==
    {<<AdjointLayer, ControlledLayer(2)>> \o Atom("X"),
     <<ControlledLayer(2), AdjointLayer>> \o Atom("X")}

\* C2 (as amended): an operation found under control modifiers (total
\* control_count k > 0) and an odd number of adjoint modifiers is recorded
\* with the Adj wrapper built first and the control form outermost, i.e.
\* kC(Adj(name)); gate X under one control modifier over 2 control wires and
\* an adjoint modifier yields gate_types {"2C(Adj(X))": 1}.
C2_ControlOutermost ==
    ResDone =>
      /\ \A i \in ControlledAdjointOps(res_circuit) :
           LET op == res_circuit.operations[i] IN
           ControlPrefix(ControlCount(op)) \o "C(Adj(" \o InnerName(op) \o "))"
             \in DictKeys(res_report.gate_types)
      /\ (Len(res_circuit.operations) = 1
            /\ res_circuit.operations[1] \in XUnderControl2AndAdjoint)
           => res_report.gate_types = <<[key |-> "2C(Adj(X))", val |-> 1]>>

C2_Witness ==
    /\ ResDone
    /\ res_circuit.operations = <<<<AdjointLayer, ControlledLayer(2)>> \o Atom("X")>>
    /\ res_report.gate_types = <<[key |-> "2C(Adj(X))", val |-> 1]>>

\* C2 (as claimed): ... is recorded with the control form built first and the
\* Adj wrapper outermost, i.e. Adj(kC(name)); X under one control modifier
\* over 2 control wires and an adjoint modifier yields {"Adj(2C(X))": 1}.
C2_AdjOutermost ==
    ResDone =>
      /\ \A i \in ControlledAdjointOps(res_circuit) :
           LET op == res_circuit.operations[i] IN
           "Adj(" \o ControlPrefix(ControlCount(op)) \o "C(" \o InnerName(op) \o "))"
             \in DictKeys(res_report.gate_types)
      /\ (Len(res_circuit.operations) = 1
            /\ res_circuit.operations[1] \in XUnderControl2AndAdjoint)
           => res_report.gate_types = <<[key |-> "Adj(2C(X))", val |-> 1]>>

\* the operations recorded without an Adj wrapper: not barriers, an even
\* number of adjoint modifiers
PlainOrControlledOps(circuit) ==
    {i \in 1..Len(circuit.operations) :
        LET op == circuit.operations[i] IN
        ~AdjointOdd(op) /\ InnerName(op) # "Barrier"}

\* C12: the control_count of an operation is the sum of the control-wire
\* counts of all control-modifier layers unwrapped on the way to its atomic
\* operation; with no control and no adjoint layer the plain name is recorded
\* (one gate X gives {"X": 1}), control_count 1 gives "C(name)" with no
\* number, and control_count k > 1 gives "kC(name)" (X under one control
\* modifier over 2 wires gives {"2C(X)": 1}).
C12_ControlPrefix ==
    ResDone =>
      /\ \A i \in PlainOrControlledOps(res_circuit) :
           LET op == res_circuit.operations[i]
               k == ControlCount(op)
               expected == IF k = 0 THEN InnerName(op)
                           ELSE IF k = 1 THEN "C(" \o InnerName(op) \o ")"
                           ELSE ToString(k) \o "C(" \o InnerName(op) \o ")"
           IN expected \in DictKeys(res_report.gate_types)
      /\ res_circuit.operations = <<Atom("X")>>
           => res_report.gate_types = <<[key |-> "X", val |-> 1]>>
      /\ res_circuit.operations = <<<<ControlledLayer(2)>> \o Atom("X")>>
           => res_report.gate_types = <<[key |-> "2C(X)", val |-> 1]>>

C12_Witness ==
    /\ ResDone
    /\ res_circuit.operations =
         <<<<ControlledOpLayer, ControlledLayer(2)>> \o Atom("X"), Atom("X")>>
    /\ res_report.gate_types =
         <<[key |-> "3C(X)", val |-> 1], [key |-> "X", val |-> 1]>>

\* a barrier: an operation whose control and adjoint modifier layers, if
\* any, wrap the structural marker named "Barrier"
IsBarrier(op) == InnerName(op) = "Barrier"

NonBarriers(operations) ==
    {i \in 1..Len(operations) : ~IsBarrier(operations[i])}

\* the operations with the barriers taken out, the order kept
RECURSIVE WithoutBarriers(_)
WithoutBarriers(operations) ==
    IF operations = <<>> THEN <<>>
    ELSE IF IsBarrier(Head(operations)) THEN WithoutBarriers(Tail(operations))
    ELSE <<Head(operations)>> \o WithoutBarriers(Tail(operations))

\* C13: for every circuit, num_gates equals the sum of all gate_types counts
\* and equals the number of operations in the circuit that are not barriers;
\* a barrier at any position adds no key to gate_types and nothing to
\* num_gates (the report is the one of the circuit without its barriers);
\* num_wires equals the size of the circuit's wire set.
C13_ReportTotals ==
    ResDone =>
      LET types == res_report.gate_types
          idxs == 1..Len(types)
          bare == _simulate_resource_use(
                    [res_circuit EXCEPT !.operations = WithoutBarriers(@)])
      IN /\ res_report.num_gates = SumOver(idxs, [i \in idxs |-> types[i].val])
         /\ res_report.num_gates
              = Cardinality(NonBarriers(res_circuit.operations))
         /\ types = bare.gate_types
         /\ res_report.num_gates = bare.num_gates
         /\ res_report.num_wires = res_circuit.nwires

C13_Witness ==
    /\ ResDone
    /\ res_circuit.operations =
         <<Atom("Barrier"), <<ControlledLayer(1), AdjointLayer>> \o Atom("Barrier")>>
    /\ res_circuit.nwires = 2
    /\ res_report = [num_wires |-> 2, num_gates |-> 0, gate_types |-> <<>>]

\* the operations whose leading modifier layers end at an operation that
\* has a base: a named controlled gate, a power wrapper
StoppedAt(circuit) ==
    {i \in 1..Len(circuit.operations) :
        ModifierDepth(circuit.operations[i]) + 1
            < Len(circuit.operations[i])}

\* name under controls control wires, adjoint when adj
NameUnder(name, controls, adj) ==
    LET inner == IF adj THEN "Adj(" \o name \o ")" ELSE name
    IN IF controls = 0 THEN inner
       ELSE ControlPrefix(controls) \o "C(" \o inner \o ")"

\* the report of the circuit with operation i replaced by op
ReportWith(circuit, i, op) ==
    _simulate_resource_use([circuit EXCEPT !.operations[i] = op])

\* C23: an operation that exposes a base but is neither a control-modifier
\* layer nor an adjoint-modifier layer (a named controlled-NOT, a power
\* wrapper) is not unwrapped: it is counted once under its own name combined
\* with the control count and adjoint flag of the modifier layers outside
\* it, and its base contributes no entry (the report is the one of the
\* circuit with that base taken away).
C23_StopRule ==
    ResDone =>
      /\ \A i \in StoppedAt(res_circuit) :
           LET op == res_circuit.operations[i]
               j == ModifierDepth(op)
           IN /\ NameUnder(op[j + 1].name, ControlCount(op), AdjointOdd(op))
                   \in DictKeys(res_report.gate_types)
              /\ res_report = ReportWith(res_circuit, i, SubSeq(op, 1, j + 1))
      /\ (Len(res_circuit.operations) = 1 /\ StoppedAt(res_circuit) = {1})
           => LET op == res_circuit.operations[1] IN
              res_report.gate_types =
                <<[key |-> NameUnder(op[ModifierDepth(op) + 1].name,
                                     ControlCount(op), AdjointOdd(op)),
                   val |-> 1]>>

\* a named controlled-NOT under a control layer over two wires
C23_Witness ==
    /\ ResDone
    /\ res_circuit.operations = <<<<ControlledLayer(2), CNOTLayer>> \o Atom("X")>>
    /\ res_report.gate_types = <<[key |-> "2C(CNOT)", val |-> 1]>>

\* op with its layers i and i + 1 exchanged
SwapLayers(op, i) ==
    [k \in 1..Len(op) |->
       IF k = i THEN op[i + 1] ELSE IF k = i + 1 THEN op[i] ELSE op[k]]

\* op without its layers i and i + 1
DropLayers(op, i) == SubSeq(op, 1, i - 1) \o SubSeq(op, i + 2, Len(op))

\* op with its layers i and i + 1 made one control layer over n wires
MergeLayers(op, i, n) ==
    SubSeq(op, 1, i - 1) \o <<ControlledLayer(n)>> \o SubSeq(op, i + 2, Len(op))

\* C26: the reported name depends only on the atomic operation's name, the
\* total number of control wires and the parity of the number of adjoint
\* layers: exchanging two neighbouring modifier layers, taking away two
\* adjoint layers, or joining two control layers into one over the sum of
\* their wires leaves the report unchanged (Adjoint(Controlled(X)) and
\* Controlled(Adjoint(X)) share a key), and a barrier under any stack of
\* control/adjoint layers is skipped like a bare barrier.
C26_OrderIndependent ==
    ResDone =>
      \A i \in 1..Len(res_circuit.operations) :
        LET op == res_circuit.operations[i]
            depth == ModifierDepth(op)
        IN /\ \A j \in 1..(depth - 1) :
                /\ ReportWith(res_circuit, i, SwapLayers(op, j)) = res_report
                /\ (op[j].type = "Adjoint" /\ op[j + 1].type = "Adjoint")
                     => ReportWith(res_circuit, i, DropLayers(op, j))
                          = res_report
                /\ (op[j].type \in {"Controlled", "ControlledOp"}
                      /\ op[j + 1].type \in {"Controlled", "ControlledOp"})
                     => ReportWith(res_circuit, i,
                                   MergeLayers(op, j, op[j].ncontrol
                                                        + op[j + 1].ncontrol))
                          = res_report
           /\ InnerName(op) # "Barrier"
                => NameUnder(InnerName(op), ControlCount(op), AdjointOdd(op))
                     \in DictKeys(res_report.gate_types)
           /\ op \in {<<AdjointLayer, ControlledLayer(1)>> \o Atom("X"),
                       <<ControlledLayer(1), AdjointLayer>> \o Atom("X")}
                => "C(Adj(X))" \in DictKeys(res_report.gate_types)
           /\ IsBarrier(op)
                => res_report
                     = _simulate_resource_use(
                         [res_circuit EXCEPT
                            !.operations = SubSeq(@, 1, i - 1)
                                             \o SubSeq(@, i + 1, Len(@))])

\* Controlled(Adjoint(X)) counted under the key of Adjoint(Controlled(X))
C26_Witness ==
    /\ ResDone
    /\ res_circuit.operations =
         <<<<ControlledLayer(1), AdjointLayer>> \o Atom("X")>>
    /\ res_report.gate_types = <<[key |-> "C(Adj(X))", val |-> 1]>>
    /\ ReportWith(res_circuit, 1, <<AdjointLayer, ControlledLayer(1)>> \o Atom("X"))
         = res_report

----------------------------------------------------------------------------
(* SpecCfg: one normalisation of every configuration *)

InitCfg ==
    /\ cfg_in \in ExecutionConfigs
    /\ cfg_out = NoCall
    /\ cache = <<>>
    /\ ZmIdle /\ ResIdle /\ SimIdle /\ DevIdle /\ ExecIdle /\ AuxIdle

PreprocessCall ==
    /\ cfg_out = NoCall
    /\ LET r == preprocess(cfg_in)
       IN /\ cfg_in' = r.execution_config
          /\ cfg_out' = r.ret
    /\ UNCHANGED <<auxVars, cache, zmVars, resVars, simVars, devVars,
                   execVars>>

NextCfg == PreprocessCall

SpecCfg == InitCfg /\ [][NextCfg]_vars

CfgDone == cfg_out # NoCall

AllFlagsUnset(config) ==
    /\ config.use_device_gradient = "None"
    /\ config.use_device_jacobian_product = "None"
    /\ config.grad_on_execution = "None"

FourValues(config) ==
    <<config.gradient_method, config.use_device_gradient,
      config.use_device_jacobian_product, config.grad_on_execution>>

\* the flags a method stands for: use_device_gradient,
\* use_device_jacobian_product, grad_on_execution
FlagsOf(method) ==
    <<Bool(method \in {"best", "device", "adjoint", "backprop"}),
      Bool(method = "device"), Bool(method = "device")>>

Replaced(method) == IF method \in {"best", "adjoint"} THEN "device" ELSE method

FlagsDerivedFrom(method) ==
    /\ cfg_in.use_device_gradient = "None"
         => cfg_out.use_device_gradient = FlagsOf(method)[1]
    /\ cfg_in.use_device_jacobian_product = "None"
         => cfg_out.use_device_jacobian_product = FlagsOf(method)[2]
    /\ cfg_in.grad_on_execution = "None"
         => cfg_out.grad_on_execution = FlagsOf(method)[3]

\* C4 (as amended): a gradient method of "best" or "adjoint" is replaced by
\* "device", and each of use_device_gradient, use_device_jacobian_product and
\* grad_on_execution that the caller left unset is derived from the method
\* the caller gave, before that replacement; so a configuration with method
\* "best" or "adjoint" and all three flags unset normalizes to ("device",
\* True, False, False), and one with method "device" to ("device", True,
\* True, True).
C4_FlagsFromCallersMethod ==
    CfgDone =>
      /\ cfg_out.gradient_method = Replaced(cfg_in.gradient_method)
      /\ FlagsDerivedFrom(cfg_in.gradient_method)
      /\ (AllFlagsUnset(cfg_in) /\ cfg_in.gradient_method \in {"best", "adjoint"})
           => FourValues(cfg_out) = <<"device", "True", "False", "False">>
      /\ (AllFlagsUnset(cfg_in) /\ cfg_in.gradient_method = "device")
           => FourValues(cfg_out) = <<"device", "True", "True", "True">>

C4_Witness ==
    /\ CfgDone /\ cfg_in.gradient_method = "best" /\ AllFlagsUnset(cfg_in)
    /\ FourValues(cfg_out) = <<"device", "True", "False", "False">>

\* C4 (as claimed): ... each flag the caller left unset is derived from the
\* method after that replacement; so a configuration with method "best" or
\* "adjoint" and all three flags unset normalizes to the same four values as
\* one with method "device" and all three flags unset.
C4_FlagsFromReplacedMethod ==
    CfgDone =>
      /\ cfg_out.gradient_method = Replaced(cfg_in.gradient_method)
      /\ FlagsDerivedFrom(Replaced(cfg_in.gradient_method))
      /\ (AllFlagsUnset(cfg_in) /\ cfg_in.gradient_method \in {"best", "adjoint"})
           => FourValues(cfg_out) = <<"device", "True", "True", "True">>

FlagNames ==
    {"use_device_gradient", "use_device_jacobian_product",
     "grad_on_execution"}

\* C16: configuration normalization leaves the caller's configuration
\* instance unchanged and returns a new value; in that value every flag the
\* caller had set (use_device_gradient, use_device_jacobian_product,
\* grad_on_execution not None) keeps the caller's value, a gradient method
\* other than "best" and "adjoint" is kept, and all other fields are equal
\* to the caller's.
C16_CallersConfigKept ==
    [][(cfg_out = NoCall /\ cfg_out' # NoCall) =>
         /\ cfg_in' = cfg_in
         /\ DOMAIN cfg_out' = DOMAIN cfg_in
         /\ \A f \in FlagNames : cfg_in[f] # "None" => cfg_out'[f] = cfg_in[f]
         /\ cfg_in.gradient_method \notin {"best", "adjoint"}
              => cfg_out'.gradient_method = cfg_in.gradient_method
         /\ cfg_out'.interface = cfg_in.interface]_vars

C16_Witness ==
    /\ CfgDone
    /\ cfg_in = [gradient_method |-> "best", use_device_gradient |-> "False",
                 use_device_jacobian_product |-> "None",
                 grad_on_execution |-> "True", interface |-> "jax"]
    /\ cfg_out = [gradient_method |-> "device", use_device_gradient |-> "False",
                  use_device_jacobian_product |-> "False",
                  grad_on_execution |-> "True", interface |-> "jax"]

----------------------------------------------------------------------------
(* SpecCap: the capability queries asked of a device, in any order, about   *)
(* one configuration or none.                                               *)

Queries == {"supports_derivatives", "supports_vjp", "supports_jvp"}

\* no query answered yet
NoAnswers == [q \in {} |-> FALSE]

InitCap ==
    /\ cap_in \in ExecutionConfigs \cup {NoneConfig}
    /\ cap_out = NoAnswers
    /\ wires \in {0, MaxWires}
    /\ track_resources \in BOOLEAN
    /\ cache = <<>>
    /\ ZmIdle /\ ResIdle /\ CfgIdle /\ SimIdle /\ ExecIdle
    /\ GradIdle /\ AaIdle /\ ExtIdle

\* a query returns: its answer is noted
Answer(query, value) ==
    /\ query \notin DOMAIN cap_out
    /\ cap_out' = [q \in DOMAIN cap_out \cup {query} |->
                     IF q = query THEN value ELSE cap_out[q]]
    /\ UNCHANGED <<extVars, cap_in, cache, gradVars, aaVars, zmVars, resVars, cfgVars,
                   simVars, devVars, execVars>>

SupportsDerivativesCall ==
    Answer("supports_derivatives", supports_derivatives(cap_in))

SupportsVjpCall == Answer("supports_vjp", supports_vjp(cap_in))

SupportsJvpCall == Answer("supports_jvp", supports_jvp(cap_in))

NextCap == SupportsDerivativesCall \/ SupportsVjpCall \/ SupportsJvpCall

SpecCap == InitCap /\ [][NextCap]_vars

\* C15: each of supports_derivatives, supports_vjp and supports_jvp returns
\* true if and only if no configuration is supplied or the configuration's
\* gradient method is one of device, backprop, adjoint; for every other
\* method (e.g. best, finite-diff, none) it returns false; the three queries
\* agree on every input and change no state.
C15_CapabilityQueries ==
    [][cap_out' # cap_out =>
         /\ \A q \in DOMAIN cap_out' :
              /\ cap_out'[q]
                   <=> (cap_in = NoneConfig
                          \/ cap_in.gradient_method
                               \in {"device", "backprop", "adjoint"})
              /\ (cap_in # NoneConfig
                    /\ cap_in.gradient_method \in {"best", "finite-diff", "None"})
                   => ~cap_out'[q]
         /\ \A q, r \in DOMAIN cap_out' : cap_out'[q] = cap_out'[r]
         /\ UNCHANGED <<cap_in, wires, track_resources, cache, files>>]_vars

C15_Witness ==
    /\ cap_in \in ExecutionConfigs
    /\ cap_in.gradient_method = "best"
    /\ DOMAIN cap_out = Queries
    /\ \A q \in Queries : ~cap_out[q]

----------------------------------------------------------------------------
(* SpecSim: one call of NullQubit._simulate on a device with or without     *)
(* wires and resource tracking, no report file existing yet.                *)

SimMPs ==
    {PlainMP("ExpectationMP", 1), PlainMP("ProbabilityMP", 0),
     [kind |-> "CountsMP", nwires |-> 0, obs |-> "None", mv |-> "None",
      eigvals |-> <<>>, all_outcomes |-> FALSE]}

SimCircuits ==
    [operations : {<<Atom("X")>>}, nwires : {1, MaxWires},
     measurements : UNION {[1..k -> SimMPs] : k \in 0..MaxMeas},
     shots : UNION {[1..k -> 1..MaxShots] : k \in 0..MaxPart},
     batch_size : {None, MaxBatch}]

InitSim ==
    /\ sim_args \in [circuit : SimCircuits, interface : Interfaces]
    /\ sim_ret = NoCall
    /\ wires \in {0, MaxWires}
    /\ track_resources \in BOOLEAN
    /\ cache = <<>>
    /\ ZmIdle /\ ResIdle /\ CfgIdle /\ ExecIdle /\ AuxIdle

SimulateCall ==
    /\ sim_ret = NoCall
    /\ LET r == _simulate(files, clock, cache, wires, track_resources,
                          sim_args.circuit, sim_args.interface)
       IN /\ sim_ret' = r.ret
          /\ files' = r.files
          /\ cache' = r.cache
    /\ UNCHANGED <<auxVars, sim_args, zmVars, resVars, cfgVars, devVars, circuits,
                   execution_config, idx, results, pc, ret, clock, calls,
                   executed, failed, last>>

NextSim == SimulateCall

SpecSim == InitSim /\ [][NextSim]_vars

SimDone == sim_ret # NoCall

\* the zero result of a measurement for a shot count in the call at hand
SimZero(mp, s) ==
    zero_measurement(<<>>, mp, NumDeviceWires(wires, sim_args.circuit), s,
                     sim_args.circuit.batch_size, sim_args.interface).ret

\* the per-partition results of the value returned, with their shot counts
SimPartitions ==
    LET shots == sim_args.circuit.shots IN
    IF Len(shots) > 1
    THEN {<<sim_ret.items[p], shots[p]>> : p \in 1..Len(sim_ret.items)}
    ELSE {<<sim_ret, IF shots = <<>> THEN None ELSE shots[1]>>}

\* C6: per-circuit result nesting by measurement count: with exactly one
\* measurement the per-partition result is that measurement's value itself,
\* not a length-one sequence; for any other number m of measurements it is a
\* sequence of length m whose j-th element is the zero result of the j-th
\* declared measurement.
C6_NestingByMeasurementCount ==
    SimDone =>
      LET mps == sim_args.circuit.measurements IN
      \A pr \in SimPartitions :
        IF Len(mps) = 1
        THEN pr[1] = SimZero(mps[1], pr[2])
        ELSE /\ pr[1].tag = "tuple"
             /\ Len(pr[1].items) = Len(mps)
             /\ \A j \in 1..Len(mps) : pr[1].items[j] = SimZero(mps[j], pr[2])

C6_Witness ==
    /\ SimDone
    /\ Len(sim_args.circuit.measurements) = 1
    /\ sim_args.circuit.measurements[1].kind = "ExpectationMP"
    /\ sim_args.circuit.shots = <<>>
    /\ sim_args.circuit.batch_size = None
    /\ sim_ret.tag = "array" /\ sim_ret.shape = <<>> /\ sim_ret.data = <<0>>

\* the per-partition result the measurements give for a shot count
SimPartitionFor(s) ==
    LET mps == sim_args.circuit.measurements IN
    IF Len(mps) = 1 THEN SimZero(mps[1], s)
    ELSE Tuple([j \in 1..Len(mps) |-> SimZero(mps[j], s)])

\* C7: per-circuit result nesting by shots: with shots partitioned into k
\* shot counts the result is a sequence of exactly k per-partition results in
\* partition order, the p-th synthesized with the p-th shot count; with
\* shots absent or a single unpartitioned count it is a single per-partition
\* result with no extra sequence level.
C7_NestingByShots ==
    SimDone =>
      LET shots == sim_args.circuit.shots IN
      IF Len(shots) > 1
      THEN /\ sim_ret.tag = "tuple"
           /\ Len(sim_ret.items) = Len(shots)
           /\ \A p \in 1..Len(shots) :
                sim_ret.items[p] = SimPartitionFor(shots[p])
      ELSE sim_ret = SimPartitionFor(IF shots = <<>> THEN None ELSE shots[1])

C7_Witness ==
    /\ SimDone
    /\ sim_args.circuit.shots = <<2, 1>>
    /\ Len(sim_args.circuit.measurements) = 1
    /\ sim_args.circuit.measurements[1].kind = "CountsMP"
    /\ sim_args.circuit.batch_size = None
    /\ sim_ret.tag = "tuple" /\ Len(sim_ret.items) = 2
    /\ sim_ret.items[1].items[1].val.data = <<2>>
    /\ sim_ret.items[2].items[1].val.data = <<1>>

----------------------------------------------------------------------------
(* Spec: a NullQubit device, constructed without wires and with or without  *)
(* resource tracking, serving calls of execute while time passes.           *)

CountsPlain ==
    [kind |-> "CountsMP", nwires |-> 0, obs |-> "None", mv |-> "None",
     eigvals |-> <<>>, all_outcomes |-> FALSE]

\* a circuit whose synthesis fails at its second measurement: a classical
\* shadow with parameter broadcasting
ShadowBroadcast ==
    [operations |-> <<Atom("X")>>, nwires |-> 1,
     measurements |-> <<PlainMP("DensityMatrixMP", 1),
                        PlainMP("ClassicalShadowMP", 1)>>,
     shots |-> <<1>>, batch_size |-> 2]

\* circuits with distinct measurements and distinct resource reports
ExpvalCircuit ==
    [operations |-> <<Atom("X")>>, nwires |-> 1,
     measurements |-> <<PlainMP("ExpectationMP", 1)>>,
     shots |-> <<>>, batch_size |-> None]

ProbsCountsCircuit ==
    [operations |-> <<<<ControlledLayer(2), AdjointLayer>> \o Atom("X"),
                      Atom("Barrier")>>,
     nwires |-> 2,
     measurements |-> <<PlainMP("ProbabilityMP", 0), CountsPlain>>,
     shots |-> <<1, 2>>, batch_size |-> None]

ExecCircuits == {ExpvalCircuit, ProbsCountsCircuit, ShadowBroadcast}

ExecConfigs ==
    {cfg \in ExecutionConfigs :
        /\ AllFlagsUnset(cfg)
        /\ <<cfg.gradient_method, cfg.interface>>
             \in {<<"None", "numpy">>, <<"backprop", "jax">>}}

Batches == UNION {[1..k -> ExecCircuits] : k \in 0..MaxCircuits}

Init ==
    /\ wires = 0
    /\ track_resources \in BOOLEAN
    /\ cache = <<>>
    /\ ZmIdle /\ ResIdle /\ CfgIdle /\ SimIdle /\ ExecIdle /\ AuxIdle

\* execute(circuits, execution_config) is called: the generator of line 400
\* is about to be consumed
Execute ==
    /\ pc \in {"idle", "returned", "raised"}
    /\ calls < MaxCalls
    /\ \E batch \in Batches, config \in ExecConfigs :
         /\ circuits' = batch
         /\ execution_config' = config
    /\ idx' = 1
    /\ results' = <<>>
    /\ ret' = NoCall
    /\ pc' = "running"
    /\ calls' = calls + 1
    /\ UNCHANGED <<auxVars, cache, files, clock, executed, failed, last,
                   zmVars, resVars, cfgVars, simVars, devVars>>

\* faulty variant of CurrentCircuit: the generator never advances
CurrentCircuit_First(batch, i) == batch[1]

\* the circuit c of "for c in circuits" at position i
CurrentCircuit(batch, i) == batch[i]

\* faulty variant of SimulateStep: a failing circuit isolated, its exception
\* collected as its result
SimulateStep_Isolated ==
    /\ pc = "running"
    /\ idx <= Len(circuits)
    /\ LET r == _simulate(files, clock, cache, wires, track_resources,
                          CurrentCircuit(circuits, idx),
                          _interface(execution_config))
       IN /\ results' = Append(results, r.ret)
          /\ idx' = idx + 1
          /\ executed' = executed + 1
          /\ files' = r.files
          /\ cache' = r.cache
          /\ UNCHANGED <<pc, ret, failed>>
    /\ UNCHANGED <<auxVars, circuits, execution_config, clock, calls, last,
                   zmVars, resVars, cfgVars, simVars, devVars>>

\* self._simulate(c, _interface(execution_config)) for the next circuit: its
\* result is collected, or its exception ends the call
SimulateStep ==
    /\ pc = "running"
    /\ idx <= Len(circuits)
    /\ LET r == _simulate(files, clock, cache, wires, track_resources,
                          CurrentCircuit(circuits, idx),
                          _interface(execution_config))
       IN IF r.ret.tag = "raise"
          THEN /\ pc' = "raised"
               /\ ret' = r.ret
               /\ failed' = failed + 1
               /\ files' = r.files
               /\ cache' = r.cache
               /\ UNCHANGED <<idx, results, executed>>
          ELSE /\ results' = Append(results, r.ret)
               /\ idx' = idx + 1
               /\ executed' = executed + 1
               /\ files' = r.files
               /\ cache' = r.cache
               /\ UNCHANGED <<pc, ret, failed>>
    /\ UNCHANGED <<auxVars, circuits, execution_config, clock, calls, last,
                   zmVars, resVars, cfgVars, simVars, devVars>>

\* the generator is exhausted: tuple(...) is returned
ExecuteReturn ==
    /\ pc = "running"
    /\ idx > Len(circuits)
    /\ ret' = Tuple(results)
    /\ pc' = "returned"
    /\ UNCHANGED <<auxVars, last, circuits, execution_config, idx, results, cache, files,
                   clock, calls, executed, failed, zmVars, resVars, cfgVars,
                   simVars, devVars>>

\* time.time() advances by a nanosecond; a device that tracks no resources
\* never reads it
Tick ==
    /\ track_resources
    /\ clock < MaxClock
    /\ clock' = clock + 1
    /\ UNCHANGED <<auxVars, circuits, execution_config, idx, results, pc, ret,
                   cache, files, calls, executed, failed, last, zmVars,
                   resVars, cfgVars, simVars, devVars>>

Next == Execute \/ SimulateStep \/ ExecuteReturn \/ Tick

Spec == Init /\ [][Next]_vars

----------------------------------------------------------------------------
(* Properties of execute (checked under Spec) *)

\* the result synthesized for a circuit under the configuration of the call
ResultFor(circuit) ==
    _simulate(NoFiles, 0, <<>>, wires, FALSE, circuit,
              _interface(execution_config)).ret

\* C1: for every batch of n circuits (n >= 0) and every configuration, a
\* successful execute returns a sequence of exactly n entries whose i-th
\* entry is the result synthesized for the i-th input circuit.
C1_OneResultPerCircuitInOrder ==
    pc = "returned" =>
      /\ ret.tag = "tuple"
      /\ Len(ret.items) = Len(circuits)
      /\ \A i \in 1..Len(circuits) : ret.items[i] = ResultFor(circuits[i])

C1_Witness ==
    /\ pc = "returned"
    /\ Len(circuits) = 2
    /\ circuits[1].measurements = <<PlainMP("ExpectationMP", 1)>>
    /\ Len(circuits[2].measurements) = 2
    /\ Len(ret.items) = 2
    /\ ret.items[1].tag = "array" /\ ret.items[1].shape = <<>>
    /\ ret.items[2].tag = "tuple" /\ Len(ret.items[2].items) = 2
    /\ ret.items[2].items[2].items[2].items[1].key = "00"

NameTaken(name) == \E f \in files : f.name = name

\* a step in which _simulate runs for the next circuit
SimulateStepTaken ==
    /\ pc = "running" /\ idx <= Len(circuits)
    /\ (pc' # pc \/ idx' # idx)

\* C5: with resource tracking enabled, every circuit execution that
\* completes creates exactly one new report file, so after any sequence of
\* successful execute calls the number of report files created equals the
\* number of circuits executed; a report is never written over an existing
\* file: when the computed name (prefix + timestamp) is already taken, also
\* by an earlier circuit of the same batch, creation fails with an error and
\* the existing file's content is unchanged.
C5_OneReportPerCircuitNoOverwrite ==
    [][track_resources =>
         /\ files \subseteq files'
         /\ executed' = executed + 1
              => /\ Cardinality(files') = Cardinality(files) + 1
                 /\ ~NameTaken(ResourcesFname(clock))
                 /\ \E f \in files' \ files : f.name = ResourcesFname(clock)
         /\ (failed' = 0 /\ pc' \in {"idle", "returned"})
              => Cardinality(files') = executed'
         /\ (SimulateStepTaken /\ NameTaken(ResourcesFname(clock)))
              => /\ pc' = "raised"
                 /\ ret' = Raise("FileExistsError")
                 /\ files' = files
                 /\ executed' = executed]_vars

C5_Witness ==
    /\ track_resources
    /\ pc = "raised" /\ ret = Raise("FileExistsError")
    /\ calls = 1 /\ idx = 2 /\ Len(circuits) = 2
    /\ circuits[1] # circuits[2]
    /\ executed = 1
    /\ files = {[name |-> ResourcesFname(clock),
                 content |-> _simulate_resource_use(circuits[1])]}

\* synthesis fails for a circuit: a classical shadow with broadcasting
SynthesisFails(circuit) ==
    /\ circuit.batch_size # None
    /\ \E j \in 1..Len(circuit.measurements) :
         circuit.measurements[j].kind = "ClassicalShadowMP"

\* report creation fails now: the name is taken
ReportFails == track_resources /\ NameTaken(ResourcesFname(clock))

\* C17: when synthesis or report creation fails for the i-th circuit of a
\* batch, execute raises that error to its caller and returns no result
\* sequence at all, not even the results already synthesized for circuits
\* before i; circuits after i are not processed.
C17_BatchFailureAborts ==
    [][/\ (SimulateStepTaken /\ (ReportFails \/ SynthesisFails(circuits[idx])))
          => /\ pc' = "raised"
             /\ ret' = IF ReportFails THEN Raise("FileExistsError")
                       ELSE Raise("ValueError")
             /\ idx' = idx /\ executed' = executed
       /\ pc' = "raised"
          => /\ ret'.tag = "raise"
             /\ pc = "running"
                  => /\ idx <= Len(circuits)
                     /\ ReportFails \/ SynthesisFails(circuits[idx])
       /\ pc = "raised"
          => /\ executed' = executed /\ files' = files /\ cache' = cache
             /\ pc' = "raised" => UNCHANGED <<idx, ret, results, circuits>>]_vars

C17_Witness ==
    /\ pc = "raised" /\ ret = Raise("ValueError")
    /\ circuits = <<ExpvalCircuit, ShadowBroadcast, ExpvalCircuit>>
          \/ circuits = <<ExpvalCircuit, ShadowBroadcast>>
    /\ idx = 2 /\ Len(results) = 1 /\ executed = 1 /\ calls = 1

\* the report of a circuit written at time now
ReportFile(circuit, now) ==
    [name |-> ResourcesFname(now), content |-> _simulate_resource_use(circuit)]

\* C27: with resource tracking enabled, a circuit's report file is created
\* and written before any of that circuit's measurement results are
\* synthesized (a failed creation leaves results and cache untouched, a
\* failed synthesis leaves the report written), and nothing is rolled back
\* on failure: when execute fails on the i-th circuit the report files of
\* circuits 1..i-1 still exist, and when the failure comes from synthesis
\* (classical shadow with a batch size) the i-th circuit's file exists too.
C27_ReportBeforeSynthesis ==
    [][track_resources =>
         /\ (SimulateStepTaken /\ ReportFails)
              => /\ files' = files /\ cache' = cache /\ results' = results
                 /\ ret' = Raise("FileExistsError")
         /\ (SimulateStepTaken /\ ~ReportFails)
              => /\ ReportFile(circuits[idx], clock) \in files'
                 /\ files' = files \cup {ReportFile(circuits[idx], clock)}
         /\ (SimulateStepTaken /\ ~ReportFails /\ SynthesisFails(circuits[idx]))
              => /\ pc' = "raised" /\ ret' = Raise("ValueError")
                 /\ Cardinality(files') = Cardinality(files) + 1
         /\ pc' = "raised"
              => /\ files \subseteq files'
                 /\ \A j \in 1..(idx' - 1) :
                      \E f \in files' :
                        f.content = _simulate_resource_use(circuits'[j])
                 /\ calls' = 1
                      => Cardinality(files')
                           = (idx' - 1)
                               + (IF ret' = Raise("ValueError") THEN 1 ELSE 0)]_vars

\* the second circuit of a batch fails in synthesis: both reports exist
C27_Witness ==
    /\ track_resources
    /\ pc = "raised" /\ ret = Raise("ValueError")
    /\ circuits = <<ExpvalCircuit, ShadowBroadcast>>
    /\ idx = 2 /\ calls = 1
    /\ Cardinality(files) = 2
    /\ \E f \in files : f.content = _simulate_resource_use(ShadowBroadcast)

----------------------------------------------------------------------------
(* SpecTwice: execute called again and again with the batch and the        *)
(* configuration of its first call, in a process whose zero-array cache is *)
(* empty, holds the float scalar zero, or is full and has evicted it.       *)

\* the cache of a process that has synthesized maxsize other arrays since it
\* last held the float scalar zero
EvictedCache == [k \in 1..maxsize |-> CacheItem(<<k>>, "numpy", "float")]

InitTwice ==
    /\ wires = 0
    /\ track_resources \in BOOLEAN
    /\ cache \in {<<>>, <<CacheItem(<<>>, "numpy", "float")>>, EvictedCache}
    /\ ZmIdle /\ ResIdle /\ CfgIdle /\ SimIdle /\ ExecIdle /\ AuxIdle

ExecuteFirst == pc = "idle" /\ Execute

\* execute is called with the arguments of the call that has returned; last
\* keeps what that call returned and the cache it left
ExecuteAgain ==
    /\ pc = "returned"
    /\ calls < MaxCalls
    /\ last' = [ret |-> ret, cache |-> cache]
    /\ idx' = 1
    /\ results' = <<>>
    /\ ret' = NoCall
    /\ pc' = "running"
    /\ calls' = calls + 1
    /\ UNCHANGED <<auxVars, circuits, execution_config, cache, files, clock,
                   executed, failed, zmVars, resVars, cfgVars, simVars,
                   devVars>>

NextTwice ==
    ExecuteFirst \/ ExecuteAgain \/ SimulateStep \/ ExecuteReturn \/ Tick

SpecTwice == InitTwice /\ [][NextTwice]_vars

\* C18: calling execute twice with the same circuit batch and the same
\* configuration returns value-equal results, whatever the state of the
\* zero-array cache before each call (empty, holding the key, or having
\* evicted it); only the names of the resource report files differ: every
\* circuit executed has a report under a name of its own.
C18_RepeatedExecuteEqual ==
    (pc = "returned" /\ last # NoCall)
    => /\ ret = last.ret
       /\ track_resources
            => Cardinality({f.name : f \in files}) = executed

C18_Witness ==
    /\ pc = "returned" /\ calls = 2 /\ track_resources
    /\ circuits = <<ExpvalCircuit>>
    /\ execution_config.gradient_method = "None"
    /\ Len(last.cache) = maxsize
    /\ last.cache[maxsize].key = CacheKey(<<>>, "numpy", "float")
    /\ last.cache[1].key = CacheKey(<<2>>, "numpy", "float")
    /\ cache = last.cache
    /\ ret = last.ret /\ ret.items[1].data = <<0>>
    /\ Cardinality(files) = 2

----------------------------------------------------------------------------
(* SpecGrad: one call of a derivative method of a NullQubit device          *)
(* constructed without wires and without resource tracking, on a batch of   *)
(* up to two circuits whose measurements have array results.                *)

GradMPs ==
    {PlainMP("ExpectationMP", 1), PlainMP("ProbabilityMP", 0),
     PlainMP("DensityMatrixMP", 1)}

\* shots absent, a single count, partitioned
GradShots == {<<>>, <<MaxShots>>, <<1, MaxShots>>}

GradCircuits ==
    [operations : {<<Atom("X")>>}, nwires : {MaxWires},
     measurements : UNION {[1..k -> GradMPs] : k \in 0..MaxMeas},
     shots : GradShots, batch_size : {None, MaxBatch},
     trainable : 0..MaxTrain]

GradPartner ==
    [operations |-> <<Atom("X")>>, nwires |-> 1,
     measurements |-> <<PlainMP("ExpectationMP", 1)>>, shots |-> <<>>,
     batch_size |-> None, trainable |-> 1]

GradBatches ==
    {<<>>} \cup {<<c>> : c \in GradCircuits}
        \cup {<<c, GradPartner>> : c \in GradCircuits}
        \cup {<<GradPartner, c>> : c \in GradCircuits}

\* the tangents or cotangents handed to a method
Tangents == {<<0>>, <<1>>}

InitGrad ==
    /\ grad_args \in [circuits : GradBatches, execution_config : ExecConfigs,
                       tangents : Tangents]
    /\ grad_ret = NoCall
    /\ cache = <<>>
    /\ ZmIdle /\ ResIdle /\ CfgIdle /\ SimIdle /\ DevIdle /\ ExecIdle
    /\ CapIdle /\ AaIdle /\ ExtIdle

\* a method that uses the zero-array cache is called
GradCall(fn, r) ==
    /\ grad_ret = NoCall
    /\ grad_ret' = [fn |-> fn, out |-> r.ret]
    /\ cache' = r.cache
    /\ UNCHANGED <<extVars, grad_args, capVars, aaVars, zmVars, resVars, cfgVars,
                   simVars, devVars, execVars>>

ComputeDerivativesCall ==
    GradCall("compute_derivatives",
             compute_derivatives(cache, wires, grad_args.circuits,
                                 grad_args.execution_config))

ExecuteAndComputeDerivativesCall ==
    GradCall("execute_and_compute_derivatives",
             execute_and_compute_derivatives(cache, wires, grad_args.circuits,
                                             grad_args.execution_config))

ComputeJvpCall ==
    GradCall("compute_jvp",
             [ret |-> compute_jvp(grad_args.circuits, grad_args.tangents,
                                  grad_args.execution_config),
              cache |-> cache])

ExecuteAndComputeJvpCall ==
    GradCall("execute_and_compute_jvp",
             execute_and_compute_jvp(cache, wires, grad_args.circuits,
                                     grad_args.tangents,
                                     grad_args.execution_config))

ComputeVjpCall ==
    GradCall("compute_vjp",
             [ret |-> compute_vjp(grad_args.circuits, grad_args.tangents,
                                  grad_args.execution_config),
              cache |-> cache])

ExecuteAndComputeVjpCall ==
    GradCall("execute_and_compute_vjp",
             execute_and_compute_vjp(cache, wires, grad_args.circuits,
                                     grad_args.tangents,
                                     grad_args.execution_config))

NextGrad ==
    \/ ComputeDerivativesCall
    \/ ExecuteAndComputeDerivativesCall
    \/ ComputeJvpCall
    \/ ExecuteAndComputeJvpCall
    \/ ComputeVjpCall
    \/ ExecuteAndComputeVjpCall

SpecGrad == InitGrad /\ [][NextGrad]_vars

----------------------------------------------------------------------------
(* Properties of the derivative methods (checked under SpecGrad) *)

GradDone == grad_ret # NoCall

\* the zero result the synthesizer gives a measurement of a circuit for a
\* shot count
GradZero(circuit, mp, s) ==
    zero_measurement(<<>>, mp, NumDeviceWires(wires, circuit), s,
                     circuit.batch_size,
                     _interface(grad_args.execution_config)).ret

\* v is an all-zero array shaped like the zero result of mp, whatever shot
\* count of the circuit the result is synthesized for
ZeroShapedLike(v, circuit, mp) ==
    /\ v.tag = "array"
    /\ \A s \in Range(ShotsOrNone(circuit.shots)) :
         LET z == GradZero(circuit, mp, s) IN
         /\ v.shape = z.shape
         /\ v.data = [k \in 1..Prod(z.shape) |-> 0]

PerMeasurement(v, circuit, mp) ==
    IF circuit.trainable = 1 THEN ZeroShapedLike(v, circuit, mp)
    ELSE /\ v.tag = "tuple"
         /\ Len(v.items) = circuit.trainable
         /\ \A k \in 1..Len(v.items) : ZeroShapedLike(v.items[k], circuit, mp)

DerivativesEntry(v, circuit) ==
    LET mps == circuit.measurements IN
    IF Len(mps) = 1 THEN PerMeasurement(v, circuit, mps[1])
    ELSE /\ v.tag = "tuple"
         /\ Len(v.items) = Len(mps)
         /\ \A j \in 1..Len(mps) : PerMeasurement(v.items[j], circuit, mps[j])

\* C14: compute_derivatives returns one entry per input circuit in input
\* order; for a circuit with n trainable parameters and m measurements, under
\* every shot specification (none, single, partitioned) and batch size, the
\* entry holds per measurement a tuple of exactly n zero values each shaped
\* like that measurement's zero result from the synthesizer; when n = 1 each
\* per-measurement tuple is replaced by its single element, and when m = 1
\* the per-measurement level is replaced by its single element.
C14_DerivativesNesting ==
    (GradDone /\ grad_ret.fn = "compute_derivatives")
    => /\ grad_ret.out.tag = "tuple"
       /\ Len(grad_ret.out.items) = Len(grad_args.circuits)
       /\ \A i \in 1..Len(grad_args.circuits) :
            DerivativesEntry(grad_ret.out.items[i], grad_args.circuits[i])

C14_Witness ==
    /\ GradDone /\ grad_ret.fn = "compute_derivatives"
    /\ Len(grad_args.circuits) = 2
    /\ grad_args.circuits[2] = GradPartner
    /\ grad_args.circuits[1].trainable = 2
    /\ grad_args.circuits[1].shots = <<1, 2>>
    /\ grad_args.circuits[1].batch_size = 2
    /\ grad_args.circuits[1].measurements
         = <<PlainMP("ProbabilityMP", 0), PlainMP("DensityMatrixMP", 1)>>
    /\ Len(grad_ret.out.items[1].items) = 2
    /\ Len(grad_ret.out.items[1].items[2].items) = 2
    /\ grad_ret.out.items[1].items[1].items[1].shape = <<2, 4>>
    /\ grad_ret.out.items[1].items[1].items[1].data = <<0, 0, 0, 0, 0, 0, 0, 0>>
    /\ grad_ret.out.items[1].items[2].items[2].shape = <<2, 2, 2>>
    /\ grad_ret.out.items[2].tag = "array"
    /\ grad_ret.out.items[2].shape = <<>>

\* the products of a call: of the fused methods, the second component
Products == IF grad_ret.fn \in {"compute_vjp", "compute_jvp"}
            THEN grad_ret.out ELSE grad_ret.out.items[2]

ScalarZero(v) == v.tag = "array" /\ v.shape = <<>> /\ v.data = <<0>>

\* C19: compute_vjp and compute_jvp (and the second component of
\* execute_and_compute_vjp / execute_and_compute_jvp) do not depend on the
\* cotangent/tangent argument: two calls that differ only in that argument
\* return equal outputs.  Per circuit, the vjp is an all-zero array of shape
\* (n) when batch_size is None and (n, batch_size) otherwise, n being the
\* number of trainable parameters; the jvp is one scalar zero per
\* measurement, given as the bare scalar when there is exactly one.
C19_ProductsIgnoreTangents ==
    LET batch == grad_args.circuits
        config == grad_args.execution_config
    IN /\ (GradDone /\ grad_ret.fn \in {"compute_vjp", "execute_and_compute_vjp"})
          => /\ \A t \in Tangents : Products = compute_vjp(batch, t, config)
             /\ Products.tag = "tuple" /\ Len(Products.items) = Len(batch)
             /\ \A i \in 1..Len(batch) :
                  LET v == Products.items[i]
                      n == batch[i].trainable
                      b == batch[i].batch_size
                  IN /\ v.tag = "array"
                     /\ v.shape = (IF b = None THEN <<n>> ELSE <<n, b>>)
                     /\ v.data = [k \in 1..(IF b = None THEN n ELSE n * b) |-> 0]
       /\ (GradDone /\ grad_ret.fn \in {"compute_jvp", "execute_and_compute_jvp"})
          => /\ \A t \in Tangents : Products = compute_jvp(batch, t, config)
             /\ Products.tag = "tuple" /\ Len(Products.items) = Len(batch)
             /\ \A i \in 1..Len(batch) :
                  LET v == Products.items[i]
                      m == Len(batch[i].measurements)
                  IN IF m = 1 THEN ScalarZero(v)
                     ELSE /\ v.tag = "tuple" /\ Len(v.items) = m
                          /\ \A j \in 1..m : ScalarZero(v.items[j])

C19_Witness ==
    /\ GradDone /\ grad_ret.fn = "execute_and_compute_vjp"
    /\ grad_args.tangents = <<1>>
    /\ Len(grad_args.circuits) = 1
    /\ grad_args.circuits[1].trainable = 2
    /\ grad_args.circuits[1].batch_size = 2
    /\ grad_ret.out.items[2].items[1].shape = <<2, 2>>
    /\ grad_ret.out.items[2].items[1].data = <<0, 0, 0, 0>>

----------------------------------------------------------------------------
(* The template AmplitudeAmplification                                      *)
(* (src/pennylane/templates/subroutines/amplitude_amplification.py).  An    *)
(* operator argument is a record [wires]; wires are sequences of distinct   *)
(* labels; an argument left out is NotGiven (work_wire: None).              *)

NotGiven == [tag |-> "None"]

Given(value) == [tag |-> "given", value |-> value]

\* Wires(wire) of one label
Wires(wire) == <<wire>>

WireSet(w) == {w[i] : i \in 1..Len(w)}

\* a + b on Wires: the labels of a, then the labels of b that a has not
WiresAdd(a, b) == a \o SelectSeq(b, LAMBDA x : x \notin WireSet(a))

\* the default of p_min
P_MIN == "0.9"

\* AmplitudeAmplification.__init__: the exception it raises, or NoError, and
\* the object as __init__ leaves it
AmplitudeAmplification(U, O, iters, fixed_point, work_wire, p_min, reflection_wires) ==
    LET named == [name |-> "AmplitudeAmplification", hyperparameters |-> <<>>,
                  wires |-> NotGiven]
        reflection == IF reflection_wires = NotGiven THEN U.wires
                      ELSE reflection_wires.value
        op_wires == IF fixed_point THEN WiresAdd(U.wires, Wires(work_wire))
                    ELSE U.wires
    IN IF fixed_point /\ work_wire = None
       THEN [raised |-> Raise("WireError"), self |-> named]
       ELSE IF fixed_point
                 /\ Len(WiresAdd(O.wires, Wires(work_wire))) = Len(O.wires)
       THEN [raised |-> Raise("ValueError"), self |-> named]
       ELSE [raised |-> NoError,
             self |-> [name |-> "AmplitudeAmplification",
                       hyperparameters |->
                         <<[key |-> "U", val |-> U],
                           [key |-> "O", val |-> O],
                           [key |-> "iters", val |-> iters],
                           [key |-> "fixed_point", val |-> fixed_point],
                           [key |-> "work_wire", val |-> work_wire],
                           [key |-> "p_min", val |-> p_min],
                           [key |-> "reflection_wires", val |-> reflection]>>,
                       wires |-> Given(op_wires)]]

----------------------------------------------------------------------------
(* SpecAA: one construction of AmplitudeAmplification *)

WireLabels == 0..MaxWires

\* the wires of an operator: one or two distinct labels
OperatorWires ==
    {<<a>> : a \in WireLabels}
        \cup {w \in WireLabels \X WireLabels : w[1] # w[2]}

AAInputs ==
    [U : [wires : OperatorWires], O : [wires : OperatorWires],
     iters : {1, 2}, fixed_point : BOOLEAN, work_wire : OrNone(WireLabels),
     reflection_wires : {NotGiven, Given(<<0>>)}]

InitAA ==
    /\ aa_args \in AAInputs
    /\ aa_obj = NoCall
    /\ cache = <<>>
    /\ ZmIdle /\ ResIdle /\ CfgIdle /\ SimIdle /\ DevIdle /\ ExecIdle
    /\ CapIdle /\ GradIdle /\ ExtIdle

Construct ==
    /\ aa_obj = NoCall
    /\ aa_obj' = AmplitudeAmplification(aa_args.U, aa_args.O, aa_args.iters,
                                        aa_args.fixed_point, aa_args.work_wire,
                                        P_MIN, aa_args.reflection_wires)
    /\ UNCHANGED <<extVars, aa_args, cache, capVars, gradVars, zmVars, resVars,
                   cfgVars, simVars, devVars, execVars>>

NextAA == Construct

SpecAA == InitAA /\ [][NextAA]_vars

AaDone == aa_obj # NoCall

\* C20: AmplitudeAmplification construction with fixed_point=True raises
\* ValueError when work_wire is not given, and raises ValueError when
\* work_wire is one of the wires of the oracle O; both errors are raised at
\* construction, before any hyperparameter is stored, and neither check
\* applies when fixed_point=False.
C20_WorkWireChecked ==
    AaDone =>
      /\ (aa_args.fixed_point /\ aa_args.work_wire = None)
           => /\ aa_obj.raised = Raise("ValueError")
              /\ aa_obj.self.hyperparameters = <<>>
      /\ (aa_args.fixed_point /\ aa_args.work_wire # None
            /\ aa_args.work_wire \in WireSet(aa_args.O.wires))
           => /\ aa_obj.raised = Raise("ValueError")
              /\ aa_obj.self.hyperparameters = <<>>
      /\ ~aa_args.fixed_point
           => /\ aa_obj.raised = NoError
              /\ Len(aa_obj.self.hyperparameters) = 7

----------------------------------------------------------------------------
(* The template kUpCCGSD                                                    *)
(* (src/pennylane/templates/subroutines/kupccgsd.py).  The weights are      *)
(* given by their shape, init_state by the dtype math.toarray gives it.     *)

\* an exception raised with a message
RaiseWith(error, message) ==
    [tag |-> "raise", error |-> error, message |-> message]

\* range(n)
RangeSeq(n) == [i \in 1..n |-> i - 1]

\* range(0, n - 1, 2)
EvenRange(n) == [j \in 1..(IF n > 1 THEN n \div 2 ELSE 0) |-> 2 * (j - 1)]

\* product(r, repeat=2): the pairs of the items of r, the first item outermost
Product2(r) ==
    [i \in 1..(Len(r) * Len(r)) |->
       <<r[((i - 1) \div Len(r)) + 1], r[((i - 1) % Len(r)) + 1]>>]

\* w[a : b]
Slice(w, a, b) == SubSeq(w, a + 1, IF b < Len(w) THEN b ELSE Len(w))

\* w[::-1]
Reversed(w) == [i \in 1..Len(w) |-> w[Len(w) + 1 - i]]

\* twice sz[i] of sz = 0.5 * (-1) ** np.arange(n)
Sz2(i) == IF i % 2 = 0 THEN 1 ELSE -1

\* generalized_singles(wires, delta_sz)
generalized_singles(kwires, delta_sz) ==
    LET picked == SelectSeq(Product2(RangeSeq(Len(kwires))),
                            LAMBDA rp : /\ Sz2(rp[2]) - Sz2(rp[1]) = 2 * delta_sz
                                        /\ rp[2] # rp[1])
    IN [i \in 1..Len(picked) |->
          IF picked[i][1] < picked[i][2]
          THEN Slice(kwires, picked[i][1], picked[i][2] + 1)
          ELSE Reversed(Slice(kwires, picked[i][2], picked[i][1] + 1))]

\* generalized_pair_doubles(wires)
generalized_pair_doubles(kwires) ==
    LET picked == SelectSeq(Product2(EvenRange(Len(kwires))),
                            LAMBDA rp : rp[2] # rp[1])
    IN [i \in 1..Len(picked) |->
          <<Slice(kwires, picked[i][1], picked[i][1] + 2),
            Slice(kwires, picked[i][2], picked[i][2] + 2)>>]

\* the object before __init__ has assigned anything
Uninitialized == [hyperparameters |-> NotGiven, wires |-> NotGiven]

\* kUpCCGSD.__init__(weights, wires, k, delta_sz, init_state): the exception
\* it raises, or NoError, and the object as __init__ leaves it
kUpCCGSD(weights, kwires, k, delta_sz, init_state) ==
    LET s_wires == generalized_singles(kwires, delta_sz)
        d_wires == generalized_pair_doubles(kwires)
        Fails(message) ==
            [raised |-> RaiseWith("ValueError", message), self |-> Uninitialized]
    IN IF Len(kwires) < 4 THEN Fails("Requires at least four wires")
       ELSE IF Len(kwires) % 2 # 0 THEN Fails("Requires even number of wires")
       ELSE IF k < 1 THEN Fails("Requires k to be at least 1")
       ELSE IF delta_sz \notin {-1, 0, 1}
       THEN Fails("Requires delta_sz to be one of +-1 or 0")
       ELSE IF weights # <<k, Len(s_wires) + Len(d_wires)>>
       THEN Fails("Weights tensor must be of shape")
       ELSE IF init_state # "int"
       THEN Fails("Elements of 'init_state' must be integers")
       ELSE [raised |-> NoError,
             self |-> [hyperparameters |->
                         Given(<<[key |-> "init_state", val |-> init_state],
                                 [key |-> "s_wires", val |-> s_wires],
                                 [key |-> "d_wires", val |-> d_wires],
                                 [key |-> "k", val |-> k],
                                 [key |-> "delta_sz", val |-> delta_sz]>>),
                       wires |-> Given(kwires)]]

\* faulty variant of kUpCCGSD_shape: the pair doubles left out of the count
kUpCCGSD_shape_SinglesOnly(k, n_wires, delta_sz) ==
    IF n_wires < 4 THEN RaiseWith("ValueError", "greater than four")
    ELSE IF n_wires % 2 # 0 THEN RaiseWith("ValueError", "even number of wires")
    ELSE Tuple(<<k, Len(generalized_singles(RangeSeq(n_wires), delta_sz))>>)

\* kUpCCGSD.shape(k, n_wires, delta_sz)
kUpCCGSD_shape(k, n_wires, delta_sz) ==
    IF n_wires < 4 THEN RaiseWith("ValueError", "greater than four")
    ELSE IF n_wires % 2 # 0 THEN RaiseWith("ValueError", "even number of wires")
    ELSE Tuple(<<k, Len(generalized_singles(RangeSeq(n_wires), delta_sz))
                      + Len(generalized_pair_doubles(RangeSeq(n_wires)))>>)

----------------------------------------------------------------------------
(* SpecKu: one construction of kUpCCGSD and one call of kUpCCGSD.shape with *)
(* the same k, wire count and delta_sz                                      *)

\* shapes of a weights tensor: no, one, two and three dimensions
WeightShapes ==
    {<<>>}
        \cup {<<a>> : a \in 0..MaxLayers}
        \cup ((0..MaxLayers) \X (0..MaxCols))
        \cup ((0..MaxLayers) \X (0..MaxCols) \X {1})

KuInputs ==
    [weights : WeightShapes, wires : {RangeSeq(n) : n \in 0..MaxKWires},
     k : 0..MaxLayers, delta_sz : -2..2, init_state : {"int", "object"}]

InitKu ==
    /\ ku_args \in KuInputs
    /\ ku_obj = NoCall
    /\ ku_shape = NoCall
    /\ cache = <<>>
    /\ ZmIdle /\ ResIdle /\ CfgIdle /\ SimIdle /\ DevIdle /\ ExecIdle
    /\ CapIdle /\ GradIdle /\ AaIdle /\ TdIdle /\ ShIdle

ConstructKu ==
    /\ ku_obj = NoCall
    /\ ku_obj' = kUpCCGSD(ku_args.weights, ku_args.wires, ku_args.k,
                          ku_args.delta_sz, ku_args.init_state)
    /\ UNCHANGED <<tdVars, shVars, ku_args, ku_shape, cache, capVars, gradVars, aaVars, zmVars,
                   resVars, cfgVars, simVars, devVars, execVars>>

ShapeCall ==
    /\ ku_shape = NoCall
    /\ ku_shape' = kUpCCGSD_shape(ku_args.k, Len(ku_args.wires),
                                  ku_args.delta_sz)
    /\ UNCHANGED <<tdVars, shVars, ku_args, ku_obj, cache, capVars, gradVars, aaVars, zmVars,
                   resVars, cfgVars, simVars, devVars, execVars>>

NextKu == ConstructKu \/ ShapeCall

SpecKu == InitKu /\ [][NextKu]_vars

\* the arguments the first four checks of __init__ reject
KuRejected ==
    \/ Len(ku_args.wires) < 4
    \/ Len(ku_args.wires) % 2 = 1
    \/ ku_args.k < 1
    \/ ku_args.delta_sz \notin {-1, 0, 1}

\* (k, number of generalized singles + number of pair doubles)
KuExpected ==
    <<ku_args.k,
      Len(generalized_singles(ku_args.wires, ku_args.delta_sz))
          + Len(generalized_pair_doubles(ku_args.wires))>>

KuWeightsError == RaiseWith("ValueError", "Weights tensor must be of shape")

\* C21: kUpCCGSD construction raises ValueError, with nothing of the operator
\* assigned, when the wire count is below 4 or odd, when k < 1 or when
\* delta_sz is not -1, 0 or 1; otherwise the weights are rejected exactly
\* when their shape differs from (k, number of generalized singles + number
\* of pair doubles), which is the value kUpCCGSD.shape returns for the same
\* k, wire count and delta_sz.
C21_KupccgsdChecks ==
    /\ ku_obj # NoCall =>
         /\ KuRejected =>
              /\ ku_obj.raised.tag = "raise"
              /\ ku_obj.raised.error = "ValueError"
              /\ ku_obj.raised # KuWeightsError
              /\ ku_obj.self = Uninitialized
         /\ ~KuRejected =>
              /\ ku_obj.raised = KuWeightsError <=> ku_args.weights # KuExpected
              /\ ku_obj.raised = NoError
                   <=> (ku_args.weights = KuExpected /\ ku_args.init_state = "int")
              /\ ku_obj.raised # NoError => ku_obj.self = Uninitialized
    /\ (ku_shape # NoCall /\ ~KuRejected) => ku_shape = Tuple(KuExpected)

\* four wires, two layers, delta_sz 0: the weights of shape (2, 6) accepted
C21_Witness ==
    /\ Len(ku_args.wires) = 4 /\ ku_args.k = 2 /\ ku_args.delta_sz = 0
    /\ ku_args.weights = <<2, 6>>
    /\ ku_obj # NoCall /\ ku_obj.raised = NoError
    /\ ku_shape = Tuple(<<2, 6>>)

----------------------------------------------------------------------------
(* The stopping-condition patch of NullQubit.preprocess (lines 351-367).    *)
(* A stopping condition of the baseline program is given by the names of    *)
(* the operations it accepts; the functions preprocess defines are closures *)
(* over the local variables (cells) of preprocess, read when called.        *)

Condition(accepts) == [tag |-> "function", accepts |-> accepts]

Closure(name) == [tag |-> "closure", name |-> name]

\* a key kwargs does not have
Absent == [tag |-> "absent"]

\* None where a function is looked for
NoFunction == [tag |-> "None"]

\* a local variable not assigned yet
Unbound == [tag |-> "unbound"]

\* a value a call returns
Returned(value) == [tag |-> "return", value |-> value]

\* t.kwargs.get(key, None)
KwargsGet(kwargs, key) ==
    IF kwargs[key] = Absent THEN NoFunction ELSE kwargs[key]

\* if original_shots_stopping_condition:
Truthy(f) == f # NoFunction

\* the for loop of lines 351-366 from transform i on: the program and the
\* local variables of preprocess after it
RECURSIVE PatchLoop(_, _, _)
PatchLoop(program, i, cells) ==
    IF i > Len(program) THEN [program |-> program, cells |-> cells]
    ELSE IF program[i].transform # "decompose"
    THEN PatchLoop(program, i + 1, cells)
    ELSE PatchLoop(
           [program EXCEPT
              ![i].kwargs.stopping_condition =
                  Closure("new_stopping_condition"),
              ![i].kwargs.stopping_condition_shots =
                  IF Truthy(KwargsGet(program[i].kwargs,
                                      "stopping_condition_shots"))
                  THEN Closure("new_shots_stopping_condition") ELSE @],
           i + 1,
           [original_stopping_condition |->
              program[i].kwargs.stopping_condition,
            original_shots_stopping_condition |->
              KwargsGet(program[i].kwargs, "stopping_condition_shots")])

\* the program preprocess returns and the cells its closures read
PatchProgram(program) ==
    PatchLoop(program, 1,
              [original_stopping_condition |-> Unbound,
               original_shots_stopping_condition |-> Unbound])

\* f(op) for a function of the baseline program or None
CallFunction(f, op) ==
    IF f.tag = "function" THEN Returned(op.name \in f.accepts)
    ELSE Raise("TypeError")

\* f(op) for a stopping condition of the returned program:
\* (not op.has_decomposition) or original(op), original read from the cell
CallCondition(f, op, cells) ==
    IF f.tag = "closure"
    THEN IF ~op.has_decomposition THEN Returned(TRUE)
         ELSE CallFunction(IF f.name = "new_stopping_condition"
                           THEN cells.original_stopping_condition
                           ELSE cells.original_shots_stopping_condition, op)
    ELSE CallFunction(f, op)

----------------------------------------------------------------------------
(* SpecProg: one call of preprocess on a baseline program of up to          *)
(* MaxTransforms transforms, then one call of a stopping condition of the   *)
(* returned program                                                         *)

StopOps == [name : {"A", "B"}, has_decomposition : BOOLEAN]

Conditions == {Condition({}), Condition({"A"}), Condition({"A", "B"})}

Transforms ==
    [transform : {"decompose"},
     kwargs : [stopping_condition : Conditions,
               stopping_condition_shots : Conditions \cup {Absent}]]
        \cup {[transform |-> "validate_measurements",
               kwargs |-> [stopping_condition |-> Absent,
                           stopping_condition_shots |-> Absent]]}

Programs == UNION {[1..n -> Transforms] : n \in 1..MaxTransforms}

ProgConfigs ==
    {c \in ExecutionConfigs :
        /\ c.gradient_method \in {"best", "backprop"}
        /\ c.use_device_gradient = "None"
        /\ c.use_device_jacobian_product = "None"
        /\ c.grad_on_execution = "None"
        /\ c.interface = "numpy"}

StopKeys == {"stopping_condition", "stopping_condition_shots"}

InitProg ==
    /\ td_in \in Programs
    /\ td_out = NoCall
    /\ td_call = NoCall
    /\ cfg_in \in ProgConfigs
    /\ cfg_out = NoCall
    /\ cache = <<>>
    /\ ZmIdle /\ ResIdle /\ SimIdle /\ DevIdle /\ ExecIdle
    /\ CapIdle /\ GradIdle /\ AaIdle /\ KuIdle /\ ShIdle

PreprocessProgramCall ==
    /\ td_out = NoCall
    /\ td_out' = PatchProgram(td_in)
    /\ cfg_in' = preprocess(cfg_in).execution_config
    /\ cfg_out' = preprocess(cfg_in).ret
    /\ UNCHANGED <<td_in, td_call, cache, zmVars, resVars, simVars, devVars,
                   execVars, capVars, gradVars, aaVars, kuVars, shVars>>

StopConditionCall ==
    /\ td_out # NoCall
    /\ td_call = NoCall
    /\ \E i \in 1..Len(td_out.program), key \in StopKeys, op \in StopOps :
         /\ td_out.program[i].transform = "decompose"
         /\ td_out.program[i].kwargs[key] # Absent
         /\ td_call' = [i |-> i, key |-> key, op |-> op,
                        result |-> CallCondition(td_out.program[i].kwargs[key],
                                                 op, td_out.cells)]
    /\ UNCHANGED <<td_in, td_out, cache, zmVars, resVars, cfgVars, simVars,
                   devVars, execVars, capVars, gradVars, aaVars, kuVars,
                   shVars>>

NextProg == PreprocessProgramCall \/ StopConditionCall

SpecProg == InitProg /\ [][NextProg]_vars

\* C24: for every decompose transform in the program, the patched
\* stopping_condition returns true for an operation iff the operation has no
\* decomposition or that same transform's original stopping_condition
\* returns true for it, and likewise for stopping_condition_shots when it
\* was present; a transform whose stopping_condition_shots was absent is
\* left without one; this for each decompose transform of a program that
\* contains more than one as well.
C24_PatchedConditions ==
    /\ td_call # NoCall =>
         td_call.result
           = Returned(\/ ~td_call.op.has_decomposition
                      \/ td_call.op.name
                           \in td_in[td_call.i].kwargs[td_call.key].accepts)
    /\ td_out # NoCall =>
         \A i \in 1..Len(td_in) :
           td_in[i].kwargs.stopping_condition_shots = Absent
             => td_out.program[i].kwargs.stopping_condition_shots = Absent

----------------------------------------------------------------------------
(* SpecBypass: one measurement synthesized as execute has it synthesized,   *)
(* zero_measurement(mp, ..., _interface(execution_config)), for every       *)
(* gradient method and declared interface, with the cache empty or holding  *)
(* the float scalar zero.                                                   *)

BypassMPs ==
    ScalarMPs \cup DensityMPs \cup StateProbMPs \cup CountsPlainMPs
        \cup ShadowMPs \cup {mp \in CountsObsMPs : Len(mp.eigvals) = 1}

BypassInputs ==
    {a \in [mp : BypassMPs, num_device_wires : 1..MaxWires,
            shots : OrNone({MaxShots}), batch_size : OrNone({MaxBatch}),
            config : {c \in ExecutionConfigs : AllFlagsUnset(c)}] :
        a.mp.kind = "ClassicalShadowMP" => a.shots # None}

InitBypass ==
    /\ zm_args \in BypassInputs
    /\ zm_ret = NoCall
    /\ cache \in InitCaches
    /\ ResIdle /\ CfgIdle /\ SimIdle /\ DevIdle /\ ExecIdle /\ AuxIdle

SynthesizeCall ==
    /\ zm_ret = NoCall
    /\ \E r \in {zero_measurement(cache, zm_args.mp, zm_args.num_device_wires,
                                   zm_args.shots, zm_args.batch_size,
                                   _interface(zm_args.config))} :
         /\ zm_ret' = r.ret
         /\ cache' = r.cache
    /\ UNCHANGED <<auxVars, zm_args, resVars, cfgVars, simVars, devVars,
                   execVars>>

NextBypass == SynthesizeCall

SpecBypass == InitBypass /\ [][NextBypass]_vars

\* the measurement kinds with a rule of their own, not the default rule
OwnRuleKinds == {"StateMP", "ProbabilityMP", "CountsMP", "ClassicalShadowMP"}

\* the declared interface under backprop, numpy otherwise
ResolvedInterface(config) ==
    IF config.gradient_method = "backprop" THEN config.interface ELSE "numpy"

\* C25: the default rule reads or inserts into the zero-array cache only
\* when the resolved interface is not a jax one; a default-rule call with a
\* jax interface, and every call of the state/probability, counts and
\* classical-shadow rules, leaves the cache unchanged and returns a freshly
\* built value (the value built with nothing cached).  The interface is the
\* configuration's declared one only when the gradient method is backprop,
\* and numpy otherwise.
C25_CacheBypass ==
    [][(zm_ret = NoCall /\ zm_ret' # NoCall) =>
         LET mp == zm_args.mp
             interface == ResolvedInterface(zm_args.config)
             shape == DefaultShape(mp, zm_args.num_device_wires, zm_args.shots,
                                   zm_args.batch_size)
             key == CacheKey(shape, interface, NumericType(mp))
         IN /\ (mp.kind \notin OwnRuleKinds /\ interface = "jax")
                 => /\ cache' = cache
                    /\ zm_ret' = zeros(shape, "jax", NumericType(mp))
            /\ mp.kind \in OwnRuleKinds
                 => /\ cache' = cache
                    /\ zm_ret' = zero_measurement(<<>>, mp,
                                                  zm_args.num_device_wires,
                                                  zm_args.shots,
                                                  zm_args.batch_size,
                                                  interface).ret
            /\ (mp.kind \notin OwnRuleKinds /\ interface # "jax")
                 => /\ CacheHas(cache', key)
                    /\ cache'[Len(cache')].key = key
                    /\ zm_ret' = cache'[Len(cache')].val
                    /\ zm_ret'.like = interface
                    /\ \A i \in 1..Len(cache) : CacheHas(cache', cache[i].key)]_vars

\* an expectation value under backprop with the jax interface declared, the
\* cache holding the float scalar zero of numpy
C25_Witness ==
    /\ zm_args # NoCall
    /\ zm_args.mp = PlainMP("ExpectationMP", 1)
    /\ zm_args.batch_size = None
    /\ zm_args.config.gradient_method = "backprop"
    /\ zm_args.config.interface = "jax"
    /\ zm_ret = zeros(<<>>, "jax", "float")
    /\ cache = <<CacheItem(<<>>, "numpy", "float")>>

----------------------------------------------------------------------------
(* SpecShare: a process that calls execute and compute_derivatives of a     *)
(* NullQubit device constructed without wires and without resource          *)
(* tracking, and that uses the values returned.  The arrays execute returns *)
(* under a non-jax interface are the objects stored in the zero-array       *)
(* cache (lines 71-73, 76-78): held is the set of cache keys whose stored   *)
(* object the caller has a reference to, served the value the last call     *)
(* returned, as it was at the return.                                       *)

\* an expectation value and a density matrix over a shot partition
ShareDensity ==
    [operations |-> <<Atom("X")>>, nwires |-> 1,
     measurements |-> <<PlainMP("DensityMatrixMP", 1),
                        PlainMP("ExpectationMP", 1)>>,
     shots |-> <<1, MaxShots>>, batch_size |-> None, trainable |-> 1]

ShareCircuits == {GradPartner, ShareDensity}

ShareBatches == UNION {[1..k -> ShareCircuits] : k \in 1..MaxCircuits}

CacheKeys(c) == {c[i].key : i \in 1..Len(c)}

\* the keys whose stored object the caller still has after a call that took
\* the cache from c to c2, looked up the keys of touched and handed the
\* caller the stored objects of returned: an object dropped by the cache is
\* no longer the cache's, and a key not looked up is not stored again
HeldAfter(h, c, c2, touched, returned) ==
    (IF CacheKeys(c) \subseteq CacheKeys(c2)
     THEN h ELSE (h \ touched) \cap CacheKeys(c2))
        \cup (returned \cap CacheKeys(c2))

\* an in-place write into an array: every component set to x
WriteInPlace(a, x) == [a EXCEPT !.data = [i \in DOMAIN a.data |-> x]]

InitShare ==
    /\ wires = 0
    /\ track_resources = FALSE
    /\ cache \in {<<>>, EvictedCache}
    /\ held = {} /\ served = NoCall /\ sh_calls = 0
    /\ ZmIdle /\ ResIdle /\ CfgIdle /\ SimIdle /\ ExecIdle
    /\ CapIdle /\ GradIdle /\ AaIdle /\ KuIdle /\ TdIdle

\* execute(circuits, execution_config), the whole call
ShareExecute ==
    /\ sh_calls < MaxCalls
    /\ \E batch \in ShareBatches, config \in ExecConfigs :
         \E r \in {SimulateAll(cache, wires, batch, _interface(config))} :
           /\ cache' = r.cache
           /\ served' = BatchReturn(r)
           /\ held' = HeldAfter(held, cache, r.cache,
                                CacheKeys(SimulateAll(<<>>, wires, batch,
                                                      _interface(config)).cache),
                                IF r.raised # NoError THEN {}
                                ELSE CacheKeys(SimulateAll(<<>>, wires, batch,
                                                 _interface(config)).cache))
    /\ sh_calls' = sh_calls + 1
    /\ UNCHANGED <<capVars, gradVars, aaVars, kuVars, tdVars, zmVars, resVars,
                   cfgVars, simVars, devVars, execVars>>

\* compute_derivatives(circuits, execution_config), the whole call: the
\* arrays returned are those of math.zeros_like, not the stored ones
ShareDerivatives ==
    /\ sh_calls < MaxCalls
    /\ \E batch \in ShareBatches, config \in ExecConfigs :
         \E r \in {compute_derivatives(cache, wires, batch, config)} :
           /\ cache' = r.cache
           /\ served' = r.ret
           /\ held' = HeldAfter(held, cache, r.cache,
                                CacheKeys(compute_derivatives(<<>>, wires, batch,
                                                              config).cache),
                                {})
    /\ sh_calls' = sh_calls + 1
    /\ UNCHANGED <<capVars, gradVars, aaVars, kuVars, tdVars, zmVars, resVars,
                   cfgVars, simVars, devVars, execVars>>

\* the caller writes in place into an array it was returned, e.g. res += 1:
\* the array is the object the cache stores under the key
CallerWrites ==
    /\ \E key \in held :
         /\ CacheHas(cache, key)
         /\ cache[CacheIndex(cache, key)].val
              # WriteInPlace(cache[CacheIndex(cache, key)].val, 1)
         /\ cache' = [cache EXCEPT ![CacheIndex(cache, key)].val
                                      = WriteInPlace(@, 1)]
    /\ served' = NoCall
    /\ UNCHANGED <<held, sh_calls, capVars, gradVars, aaVars, kuVars, tdVars,
                   zmVars, resVars, cfgVars, simVars, devVars, execVars>>

NextShare == ShareExecute \/ ShareDerivatives \/ CallerWrites

SpecShare == InitShare /\ [][NextShare]_vars

\* every array of a returned value is all-zero
RECURSIVE ArraysZero(_)
ArraysZero(v) ==
    IF v.tag = "array" THEN \A i \in DOMAIN v.data : v.data[i] = 0
    ELSE IF v.tag = "tuple"
    THEN \A i \in 1..Len(v.items) : ArraysZero(v.items[i])
    ELSE TRUE

\* C22: in every state reachable by execute and compute_derivatives calls
\* and by callers using the values they were returned, the zero-array cache
\* holds at most 128 items, every item is the all-zero array of its key's
\* shape, interface and dtype, and a value returned is all-zero.
C22_SharedZerosStayZero ==
    /\ Len(cache) <= maxsize
    /\ \A i \in 1..Len(cache) :
         cache[i].val = zeros(cache[i].key[1], cache[i].key[2], cache[i].key[3])
    /\ ArraysZero(served)

\* the size bound and the uniqueness of the keys hold whatever the caller
\* writes
CacheBounded ==
    /\ Len(cache) <= maxsize
    /\ \A i, j \in 1..Len(cache) : cache[i].key = cache[j].key => i = j

====
